---- MODULE Spec2Model ----
(***************************************************************************)
(* A model of neovide's windowed-grid rendering core:                      *)
(*   - ScrollbackBuffer   (src/src/renderer/scrollback_buffer.rs)          *)
(*   - RenderedWindow     (src/src/renderer/rendered_window.rs)            *)
(* Each structure has its own specification (SpecSB, Spec, ...); the       *)
(* variables of the other structures stay at their initial value there.    *)
(***************************************************************************)
EXTENDS Integers, Sequences, FiniteSets, TLC

\* Option::None for a line slot; lines are positive identifiers.
None == 0

Abs(x) == IF x < 0 THEN -x ELSE x
Min(a, b) == IF a < b THEN a ELSE b
Max(a, b) == IF a > b THEN a ELSE b
Signum(x) == IF x > 0 THEN 1 ELSE IF x < 0 THEN -1 ELSE 0

(***************************************************************************)
(* Bounds of the model.                                                    *)
(***************************************************************************)
\* ScrollbackBuffer: largest buffer size, largest |actual_position|,
\* number of distinct line values.
SBMaxHeight == 2
SBMaxPos == 2
SBMaxLines == 2
\* longest scrollback the model follows
SBMaxBack == 3
\* largest buffer of the scroll_internal calls of SpecSBInternal
SBInternalMaxHeight == 4

(***************************************************************************)
(* ScrollbackBuffer<LineType>                                              *)
(***************************************************************************)
VARIABLES
    sb_actual_lines,      \* Vec<Option<LineType>>: sequence of None or line
    sb_scrollback_lines,  \* VecDeque<(isize, LineType)>: sequence of [pos, line]
    sb_actual_position,   \* isize
    sb_scroll_position,   \* f64, kept as [n |-> floor, f |-> has a fractional part]
    sb_track              \* history of the last scroll / scroll_internal / refill round

sb_vars == <<sb_actual_lines, sb_scrollback_lines, sb_actual_position,
             sb_scroll_position, sb_track>>

\* scroll_position as a whole number
Whole(n) == [n |-> n, f |-> FALSE]

\* scroll_position <= actual_position as f64
SPLeq(sp, pos) == sp.n < pos \/ (sp.n = pos /\ ~sp.f)

SBHeight == Len(sb_actual_lines)

SBLines == 1..SBMaxLines

NoTrack == [stage |-> "none", pre |-> <<>>, pos |-> 0, rows |-> 0, todo |-> {}]

\* Swap of two elements of a sequence (Vec::swap), 1-based.
Swap(s, a, b) == [s EXCEPT ![a] = s[b], ![b] = s[a]]

\* The indices a binary partition_point may return, for the sequence of the
\* values of its predicate on the elements: the element before the index
\* satisfies the predicate (or there is none) and the element at the index does
\* not (or there is none).  On a sequence that is partitioned by the predicate
\* this is the one partition point; on any other sequence the result of the
\* library call is unspecified and every such index is possible.
PartitionPoints(holds) ==
    {r \in 0..Len(holds) :
        (r = 0 \/ holds[r]) /\ (r = Len(holds) \/ ~holds[r + 1])}

\* VecDeque::drain(0..r) and VecDeque::drain(r..)
DrainFront(s, r) == SubSeq(s, r + 1, Len(s))
DrainFrom(s, r) == SubSeq(s, 1, r)

\* cleanup_scrollback: the set of scrollback sequences it may leave, for the
\* given (already updated) actual_position.
CleanupScrollback(lines, pos, sp, height) ==
    LET first_valid == IF SPLeq(sp, pos) THEN sp.n ELSE pos + height
        last_valid == IF SPLeq(sp, pos) THEN pos - 1 ELSE sp.n + height
    IN  UNION {
            LET s1 == DrainFront(lines, r1)
            IN  {DrainFrom(s1, r2) :
                    r2 \in PartitionPoints(
                              [k \in 1..Len(s1) |-> s1[k].pos > last_valid])}
            : r1 \in PartitionPoints(
                        [k \in 1..Len(lines) |-> lines[k].pos < first_valid])}

\* The entries scroll pushes at the back (rows > 0): rows 0..rows-1 that hold a line.
RECURSIVE PushedBack(_, _, _, _)
PushedBack(actual, prev_position, rows, i) ==
    IF i >= rows THEN <<>>
    ELSE (IF actual[i + 1] # None
            THEN <<[pos |-> prev_position + i, line |-> actual[i + 1]]>>
            ELSE <<>>)
         \o PushedBack(actual, prev_position, rows, i + 1)

\* PushedFront with the key of each entry one row too low in the window
\* (prev_position + len - i instead of prev_position + len - i - 1).
RECURSIVE PushedFrontKeyOff(_, _, _, _, _)
PushedFrontKeyOff(scrollback, actual, prev_position, count, i) ==
    IF i >= count THEN scrollback
    ELSE LET row == Len(actual) - i
             e == [pos |-> prev_position + Len(actual) - i, line |-> actual[row]]
         IN  PushedFrontKeyOff(IF actual[row] # None THEN <<e>> \o scrollback
                                                    ELSE scrollback,
                               actual, prev_position, count, i + 1)

\* The scrollback after the push_front loop (rows < 0): the last -rows rows, from
\* the last one upwards, each pushed at the front.
RECURSIVE PushedFront(_, _, _, _, _)
PushedFront(scrollback, actual, prev_position, count, i) ==
    IF i >= count THEN scrollback
    ELSE LET row == Len(actual) - i
             e == [pos |-> prev_position + Len(actual) - i - 1, line |-> actual[row]]
         IN  PushedFront(IF actual[row] # None THEN <<e>> \o scrollback ELSE scrollback,
                         actual, prev_position, count, i + 1)

\* The part of scroll after cleanup_scrollback.
ScrollExtend(cleaned, actual, prev_position, pos, rows) ==
    IF Abs(rows) < Len(actual)
    THEN IF rows > 0
         THEN IF cleaned = <<>> \/ cleaned[Len(cleaned)].pos < pos
              THEN cleaned \o PushedBack(actual, prev_position, rows, 0)
              ELSE cleaned
         ELSE IF cleaned = <<>> \/ cleaned[1].pos > pos
              THEN PushedFront(cleaned, actual, prev_position, -rows, 0)
              ELSE cleaned
    ELSE cleaned

\* scroll_internal: the swaps, in the order of the iterator.
RECURSIVE SwapRows(_, _, _)
SwapRows(actual, ys, rows) ==
    IF ys = <<>> THEN actual
    ELSE SwapRows(Swap(actual, Head(ys) - rows + 1, Head(ys) + 1), Tail(ys), rows)

\* both ranges ascending
ScrollInternalRowsAscending(top, bottom, rows) ==
    IF rows > 0
    THEN [k \in 1..Max(0, bottom - top - rows) |-> top + rows + k - 1]
    ELSE [k \in 1..Max(0, bottom + rows - top) |-> top + k - 1]

\* top + rows .. bottom, ascending, or top .. bottom + rows, descending
ScrollInternalRows(top, bottom, rows) ==
    IF rows > 0
    THEN [k \in 1..Max(0, bottom - top - rows) |-> top + rows + k - 1]
    ELSE [k \in 1..Max(0, bottom + rows - top) |-> bottom + rows - k]

ScrollInternalLines(actual, top, bottom, rows) ==
    SwapRows(actual, ScrollInternalRows(top, bottom, rows), rows)

\* binary_search_by_key over the scrollback: Ok(index) as the index, Err as 0.
RECURSIVE BinarySearch(_, _, _, _)
BinarySearch(s, key, left, right) ==
    IF left >= right THEN 0
    ELSE LET mid == left + (right - left) \div 2
         IN  IF s[mid + 1].pos = key THEN mid + 1
             ELSE IF s[mid + 1].pos < key THEN BinarySearch(s, key, mid + 1, right)
             ELSE BinarySearch(s, key, left, mid)

\* get_visible_line(index) on the given buffer state
VisibleLine(actual, scrollback, pos, sp, index) ==
    LET virtual_line == sp.n + index
        offset == virtual_line - pos
        found == BinarySearch(scrollback, virtual_line, 0, Len(scrollback))
    IN  IF offset >= 0 /\ offset < Len(actual) THEN actual[offset + 1]
        ELSE IF found # 0 THEN scrollback[found].line
        ELSE None

get_visible_line(index) ==
    VisibleLine(sb_actual_lines, sb_scrollback_lines, sb_actual_position,
                sb_scroll_position, index)

\* scroll_position as an f64 in units of 2^-26 rows: the whole rows of the
\* model's scroll_position and a fraction below one row
FracUnit == 2^26
ScrollPositionAt(frac) == sb_scroll_position.n * FracUnit + frac

\* f64::floor, in rows
F64Floor(x) == x \div FracUnit

\* the spacing of the f32 values around a magnitude a, in units of 2^-26
RECURSIVE F32Ulp(_, _)
F32Ulp(a, u) == IF a < 2^24 * u THEN u ELSE F32Ulp(a, 2 * u)

\* `as f32`: the nearest value with 24 significant bits, ties to even
F32Round(x) ==
    LET a == Abs(x)
        u == F32Ulp(a, 1)
        q == a \div u
        r == a % u
        up == 2 * r > u \/ (2 * r = u /\ q % 2 = 1)
    IN  Signum(x) * (IF up THEN q + 1 ELSE q) * u

\* get_scroll_delta and get_scroll_offset for the scroll position x
get_scroll_delta(x) == F32Round(x - sb_actual_position * FracUnit)

get_scroll_offset(x) ==
    LET delta == get_scroll_delta(x)
        prev_line == F64Floor(delta) * FracUnit
    IN  F32Round(prev_line - delta)

\* get_visible_line(index) for the scroll position x
get_visible_line_at(x, index) ==
    VisibleLine(sb_actual_lines, sb_scrollback_lines, sb_actual_position,
                Whole(F64Floor(x)), index)

\* ScrollbackBuffer::new(size)
SBInit ==
    /\ sb_actual_lines \in {[i \in 1..h |-> None] : h \in 1..SBMaxHeight}
    /\ sb_scrollback_lines = <<>>
    /\ sb_actual_position = 0
    /\ sb_scroll_position = Whole(0)
    /\ sb_track = NoTrack

\* rows vacated by scroll_internal(0, height, rows)
VacatedRows(height, rows) ==
    IF rows > 0 THEN (height - rows)..(height - 1) ELSE 0..(-rows - 1)

\* scroll(rows)
SBScroll(rows) ==
    LET prev_position == sb_actual_position
        pos == sb_actual_position + rows
        populated == \A i \in 1..SBHeight : sb_actual_lines[i] # None
    IN  /\ Abs(pos) <= SBMaxPos
        /\ \E cleaned \in CleanupScrollback(sb_scrollback_lines, pos,
                                            sb_scroll_position, SBHeight) :
               /\ sb_scrollback_lines' =
                      ScrollExtend(cleaned, sb_actual_lines, prev_position, pos, rows)
               /\ Len(sb_scrollback_lines') <= SBMaxBack
        /\ sb_actual_position' = pos
        /\ sb_track' =
               IF populated /\ sb_scroll_position = Whole(prev_position)
                  /\ rows # 0 /\ Abs(rows) < SBHeight
               THEN [stage |-> "scrolled", pre |-> sb_actual_lines,
                     pos |-> prev_position, rows |-> rows,
                     todo |-> VacatedRows(SBHeight, rows)]
               ELSE NoTrack
        /\ UNCHANGED <<sb_actual_lines, sb_scroll_position>>

\* scroll_internal(top, bottom, rows)
SBScrollInternal(top, bottom, rows) ==
    /\ top <= bottom /\ bottom <= SBHeight
    /\ sb_actual_lines' = ScrollInternalLines(sb_actual_lines, top, bottom, rows)
    /\ sb_track' =
           IF sb_track.stage = "scrolled" /\ top = 0 /\ bottom = SBHeight
              /\ rows = sb_track.rows
           THEN [sb_track EXCEPT !.stage = "shifted"]
           ELSE NoTrack
    /\ UNCHANGED <<sb_scrollback_lines, sb_actual_position, sb_scroll_position>>

\* The caller writes a new line into actual_lines[row] (a pub field).
SBAssign(row, l) ==
    /\ row < SBHeight
    /\ sb_actual_lines' = [sb_actual_lines EXCEPT ![row + 1] = l]
    /\ sb_track' =
           IF sb_track.stage = "shifted" /\ row \in sb_track.todo
           THEN [sb_track EXCEPT !.todo = @ \ {row},
                                 !.stage = IF sb_track.todo = {row}
                                           THEN "refilled" ELSE "shifted"]
           ELSE NoTrack
    /\ UNCHANGED <<sb_scrollback_lines, sb_actual_position, sb_scroll_position>>

\* The animation writes scroll_position (a pub field).
SBSetScrollPosition(n, f) ==
    /\ sb_scroll_position' = [n |-> n, f |-> f]
    /\ sb_track' = IF sb_track.stage = "refilled" THEN sb_track ELSE NoTrack
    /\ UNCHANGED <<sb_actual_lines, sb_scrollback_lines, sb_actual_position>>

\* reset_scroll: scroll_position = floor(actual_position + 0.5)
SBResetScroll ==
    /\ sb_scroll_position' = Whole(sb_actual_position)
    /\ sb_track' = IF sb_track.stage = "refilled" THEN sb_track ELSE NoTrack
    /\ UNCHANGED <<sb_actual_lines, sb_scrollback_lines, sb_actual_position>>

\* reset
SBReset ==
    /\ sb_scrollback_lines' = <<>>
    /\ sb_actual_position' = 0
    /\ sb_scroll_position' = Whole(0)

\* clear
SBClear ==
    /\ sb_actual_lines' = [i \in 1..SBHeight |-> None]
    /\ SBReset
    /\ sb_track' = NoTrack

\* resize(size)
SBResize(size) ==
    /\ sb_actual_lines' =
           [i \in 1..size |-> IF i <= SBHeight THEN sb_actual_lines[i] ELSE None]
    /\ SBReset
    /\ sb_track' = NoTrack

(***************************************************************************)
(* RingBuffer<T> (utils::RingBuffer): a vector and a rotating base index,  *)
(* logical index i being element (base + i) mod len.  The buffer is kept   *)
(* as the sequence of its elements in logical order (logical index 0       *)
(* first): no operation tells two buffers with the same logical content    *)
(* apart.                                                                  *)
(***************************************************************************)
RingNew(size, default) == [i \in 1..size |-> default]

RingLen(rb) == Len(rb)

\* the place of logical index `index`, which may be negative or beyond the length
ArrayIndex(rb, index) == (index % Len(rb)) + 1

RingGet(rb, index) == rb[ArrayIndex(rb, index)]

RingSet(rb, index, value) == [rb EXCEPT ![ArrayIndex(rb, index)] = value]

\* rotate with the direction of the shift inverted
RingRotateBackwards(rb, num) ==
    [i \in 1..Len(rb) |-> rb[((i - 1 - num) % Len(rb)) + 1]]

\* rotate(num): logical index i becomes what logical index i + num was
RingRotate(rb, num) ==
    [i \in 1..Len(rb) |-> rb[((i - 1 + num) % Len(rb)) + 1]]

\* iter_range(a..b): the elements at logical indices a .. b-1
RingIterRange(rb, a, b) ==
    [k \in 1..Max(0, b - a) |-> RingGet(rb, a + k - 1)]

\* iter()
RingIter(rb) == rb

\* resize(new_size, default): keeps the logical order, resets the base index
RingResize(rb, new_size, default) ==
    [i \in 1..new_size |-> IF i <= Len(rb) THEN rb[i] ELSE default]

\* clone_from_iter(source): self[i] = source[i] for each element of the source
RECURSIVE RingCloneFromIter(_, _, _)
RingCloneFromIter(rb, source, i) ==
    IF i >= Len(source) THEN rb
    ELSE RingCloneFromIter(RingSet(rb, i, source[i + 1]), source, i + 1)

\* iter_mut().for_each(|line| *line = value)
RingFill(rb, value) == [i \in 1..Len(rb) |-> value]

(***************************************************************************)
(* f32 scroll position: [n |-> floor, f |-> has a fractional part]         *)
(***************************************************************************)
ScrollZero == Whole(0)

\* position - delta for a whole delta
ScrollMinus(p, delta) == [n |-> p.n - delta, f |-> p.f]

\* p.clamp(-m, m) for a whole m >= 0
ScrollClamp(p, m) ==
    IF p.n > m \/ (p.n = m /\ p.f) THEN Whole(m)
    ELSE IF p.n < -m THEN Whole(-m)
    ELSE p

\* |p| <= m for a whole m
ScrollWithin(p, m) == ScrollClamp(p, m) = p

\* usize arithmetic that wraps on underflow: USizeRange stands for 2^64, which
\* exceeds the integers of TLC; every quantity of the model is far below.
USizeRange == 2 ^ 30
USizeWrap(x) == IF x < 0 THEN x + USizeRange ELSE x

(***************************************************************************)
(* Bounds of the RenderedWindow model.                                     *)
(***************************************************************************)
\* largest grid height and width of a Position command
RWMaxHeight == 2
RWMaxWidth == 3
\* Line objects alive at a time
RWMaxLines == 2
\* largest |scroll_delta| of a Viewport command
RWMaxDelta == 2
\* largest margin of a ViewportMargins command
RWMaxMargin == 1
\* largest scroll_animation_far_lines setting
RWMaxFar == 2
\* largest |floor(scroll_animation.position)| the model follows
RWMaxScroll == 2
\* grid positions of Position commands: 0..RWMaxCoord in x, 0 in y
RWMaxCoord == 3
\* width of the root grid
RWGridWidth == 2

(***************************************************************************)
(* RenderedWindow                                                          *)
(***************************************************************************)
VARIABLES
    hidden,                 \* bool
    anchor_info,            \* Option<AnchorInfo>: TRUE when Some
    window_type,            \* "Editor" or "Message"
    grid_size,              \* [width, height]
    scrollback_lines,       \* RingBuffer<Option<Rc<RefCell<Line>>>>
    actual_lines,           \* RingBuffer<Option<Rc<RefCell<Line>>>>
    scroll_delta,           \* isize
    viewport_margins,       \* [top, bottom, inferred]
    grid_start_position,    \* [x, y]
    grid_current_position,  \* [x, y]
    grid_destination,       \* [x, y]
    position_t,             \* 0, 1 or the sentinel 2
    scroll_animation,       \* [position]
    line_cells,             \* the Line behind each Rc<RefCell<Line>>, by identifier
    panicked,               \* the render thread panicked (overflow checks on)
    op                      \* the last operation applied to the window

rw_vars == <<hidden, anchor_info, window_type, grid_size, scrollback_lines,
             actual_lines, scroll_delta, viewport_margins, grid_start_position,
             grid_current_position, grid_destination, position_t,
             scroll_animation, line_cells, panicked, op>>

(***************************************************************************)
(* The render loop of create_window: bounds and state                      *)
(***************************************************************************)
\* most events waiting in the channel of the render thread
LoopMaxEvents == 1
\* most batches of draw commands waiting for prepare_frame
LoopMaxCommands == 1
\* largest num_consecutive_rendered the model tells apart; the loop tests it
\* against 0 and 2
LoopMaxRendered == 3
\* largest interval of the vsync of Windows, and most vsyncs counted ahead
LoopMaxInterval == 2

VARIABLES
    pc,                       \* the place of the render thread in the loop
    e,                        \* the result of try_recv / recv_timeout
    should_render,            \* bool
    num_consecutive_rendered, \* usize, counted up to LoopMaxRendered
    focused,                  \* FocusedState
    last_dt,                  \* f32: 0 when 0.0, 1 when positive
    frame_dt_samples,         \* frame_dt_avg.get_num_samples() > 0
    rx_events,                \* the events in the channel rx
    rx_connected,             \* the sender of rx is alive
    draw_commands,            \* batches of draw commands not yet handled
    no_idle,                  \* cmd_line_settings.no_idle
    vsync_kind,               \* the VSync of the build: "Windows" or "Wayland"
    vsync_alive,              \* the source of vsync signals still signals
    vsync_count,              \* vsync_win: vsync_count.0 - last_vsync
    vsync_dt,                 \* vsync_win: self.dt > 0.0
    interval,                 \* vsync_win: interval
    vsync_signaled,           \* vsync_wayland: the flag of vsync_signaled
    wait_phase,               \* vsync_wayland: which wait of wait_for_vsync runs
    draw_step,                \* the step of draw_frame that comes next
    steps,                    \* the steps of this frame iteration, in order
    prepared,                 \* should_render after prepare_frame
    animating,                \* animate_frame returned true in this iteration
    wait_duration             \* the timeout of the last wait for events, in ms

loop_vars == <<pc, e, should_render, num_consecutive_rendered, focused, last_dt,
               frame_dt_samples, rx_events, rx_connected, draw_commands, no_idle,
               vsync_kind, vsync_alive, vsync_count, vsync_dt, interval,
               vsync_signaled, wait_phase, draw_step, steps, prepared, animating,
               wait_duration>>

(***************************************************************************)
(* The size of the editor grid (window/mod.rs, window/window_wrapper.rs)    *)
(***************************************************************************)
MIN_WINDOW_WIDTH == 20
MIN_WINDOW_HEIGHT == 6

\* the window sizes, paddings and font sizes of the model, in pixels
SizeMaxWidth == 40
SizeMaxHeight == 12
SizeMaxPadding == 25
SizeMaxFont == 2

VARIABLES
    snapshot,                \* which prepare_frame of the two cited files runs
    window_inner_size,       \* window.inner_size()
    padding_setting,         \* the padding of SETTINGS.get::<WindowSettings>()
    saved_inner_size,
    window_padding,          \* renderer.window_padding
    font_dimensions,         \* renderer.grid_renderer.font_dimensions
    font_changed_last_frame,
    saved_grid_size,         \* Nothing (window/mod.rs at startup) or Some(Dimensions)
    resize_sent,             \* the last ParallelCommand::Resize sent, or Nothing
    size_panicked,           \* prepare_frame panicked (overflow checks on)
    size_op                  \* what the last prepare_frame did with the grid size

size_vars == <<snapshot, window_inner_size, padding_setting, saved_inner_size,
               window_padding, font_dimensions, font_changed_last_frame,
               saved_grid_size, resize_sent, size_panicked, size_op>>

(***************************************************************************)
(* The scroll animation of a window under repeated animate calls            *)
(***************************************************************************)
\* the starting positions in rows and velocities in rows per second
SpringMaxPosition == 2
SpringMaxVelocity == 10

VARIABLES
    spring,                  \* scroll_animation: position and velocity
    spring_dt,               \* the dt of every animate call, in ms
    spring_t,                \* position_t, in ms of position_animation_length
    spring_distance,         \* the target differs from grid_start_position
    scrolling,               \* what the last update returned
    animate_result,          \* what the last animate returned
    spring_start,            \* scroll_animation before the first call
    spring_called            \* animate has been called

spring_vars == <<spring, spring_dt, spring_t, spring_distance, scrolling,
                 animate_result, spring_start, spring_called>>

(***************************************************************************)
(* CharacterGrid (editor/grid.rs)                                           *)
(***************************************************************************)
\* largest width and height of a grid, number of cell contents besides the
\* default cell, largest |top_index| and |rows| of a scroll
CGMaxWidth == 2
CGMaxHeight == 2
CGMaxCell == 1
CGMaxTop == 2
CGMaxRows == 3

VARIABLES
    cg_width,                \* width
    cg_height,               \* height
    cg_scroll_offset,        \* scroll_offset: f64, in halves of a row
    cg_lines,                \* lines: 2 * height rows of width cells
    cg_top_index,            \* top_index
    cg_hung,                 \* a scroll_region call does not return
    cg_op                    \* the last operation on the grid

grid_vars == <<cg_width, cg_height, cg_scroll_offset, cg_lines, cg_top_index,
               cg_hung, cg_op>>

\* the number of scroll_region calls, where a specification counts them
VARIABLE cg_calls
CGMaxCalls == 3

grid_all == <<grid_vars, cg_calls>>

(***************************************************************************)
(* The floating windows of a frame (renderer/rendered_window.rs, draw)      *)
(***************************************************************************)
\* most windows drawn in a frame, and the largest pixel coordinates
FrameMaxWindows == 3
FrameMaxX == 2
FrameMaxY == 1

VARIABLES
    previous_floating_rects,  \* Vec<PixelRect<f32>>, handed from draw to draw
    floating_shadow,          \* settings.floating_shadow of the frame
    frame_drawn               \* the windows drawn in the frame so far, in order

frame_vars == <<previous_floating_rects, floating_shadow, frame_drawn>>

(***************************************************************************)
(* The end of the render thread (window/mod.rs, create_window)              *)
(***************************************************************************)
VARIABLES
    os_window,          \* what the window answered when the thread asked it
    after_loop,         \* the place of the render thread after the loop
    save_window_size    \* the arguments of the calls of save_window_size

exit_vars == <<os_window, after_loop, save_window_size>>

\* the parts that the specifications of single parts leave alone together
base_ext == <<size_vars, spring_vars, grid_all, frame_vars, exit_vars>>

(***************************************************************************)
(* Rounds of scrolls of a ScrollbackBuffer in one direction                *)
(***************************************************************************)
\* largest buffer of SpecSBHistory
SBHistMaxHeight == 3

VARIABLE sb_hist   \* the rounds so far: the stage of the round, the lines that
                   \* were visible before the first scroll, the rows of the
                   \* scroll and the rows still to refill

hist_vars == <<sb_hist>>

(***************************************************************************)
(* The vsync object and its thread                                         *)
(***************************************************************************)
\* most vsyncs the thread counts while the object lives
VSMaxCount == 4
\* largest interval set_refresh_rate sets
VSMaxInterval == 2
\* most frame callbacks requested and not yet delivered
VSMaxCallbacks == 2

VARIABLE vsync     \* the VSync object, its shared state and its two threads:
                   \*   kind          "win" (vsync_win.rs), "fixed" (vsync.rs) or
                   \*                 "wayland" (vsync_wayland.rs)
                   \*   should_exit   the AtomicBool
                   \*   count, avg    vsync_count: the counter and dt > 0.0
                   \*   mutex         who holds the mutex of vsync_count
                   \*   signaled      vsync_signaled of vsync_wayland
                   \*   callbacks     frame callbacks requested, not yet delivered
                   \*   last_vsync, dt, interval   the fields of VSync
                   \*   thread        where the vsync thread is
                   \*   render        where the render thread is
                   \*   phase         which wait of the Wayland wait_for_vsync runs

vs_vars == <<vsync>>

(***************************************************************************)
(* The start-up of the UI (WinitWindowWrapper of window_wrapper.rs)        *)
(***************************************************************************)
\* most window commands one call of handle_window_commands receives
UIMaxCommands == 2
\* largest number of columns or lines requested
UIMaxRequest == 2

VARIABLES
    ui_state,            \* UIState: "Initing", "Entered", "ShouldShow", "Ready"
    requested_columns,   \* Option<u64>
    requested_lines,     \* Option<u64>
    set_visible,         \* window().set_visible(true) has been called
    ui_op                \* the last call: its name, the commands it received,
                         \* whether a resize was requested, what it returned

ui_vars == <<ui_state, requested_columns, requested_lines, set_visible, ui_op>>

(***************************************************************************)
(* The pace of the render loop                                             *)
(***************************************************************************)
VARIABLE pace      \* what the loop did at its last wait for events, and the
                   \* frame iterations ended since the focus was lost:
                   \*   setting   the setting refresh_rate was read from
                   \*   hz        refresh_rate
                   \*   blocked   the wait was recv_timeout
                   \*   since     -1 while the focus is not lost, else the frame
                   \*             iterations ended since it was lost, 1 for more

pace_vars == <<pace>>

late_vars == <<frame_vars, exit_vars, hist_vars, vs_vars, ui_vars, pace_vars>>

\* what the steps of the paced render loop leave alone
pace_rest == <<sb_vars, rw_vars, base_ext, hist_vars, vs_vars, ui_vars>>

\* what the steps of the start-up leave alone
ui_rest == <<sb_vars, rw_vars, loop_vars, base_ext, hist_vars, vs_vars, pace_vars>>

\* what the steps of the vsync object leave alone
vs_rest == <<sb_vars, rw_vars, loop_vars, base_ext, hist_vars, ui_vars, pace_vars>>

\* the variables of the parts added after the render loop
ext_vars == <<size_vars, spring_vars, grid_all, late_vars>>

vars == <<sb_vars, rw_vars, loop_vars, ext_vars>>

LineIds == 1..RWMaxLines

\* a Line created with is_valid set
NewLineValid(border) == [is_valid |-> TRUE, is_inferred_border |-> border, builds |-> 0]

\* A Line as DrawLine creates it; builds counts the recordings of its pictures
\* (background_picture and foreground_picture are None while it is 0).
NewLine(border) == [is_valid |-> FALSE, is_inferred_border |-> border, builds |-> 0]

\* The cells some slot of the two rings points to.
Refs(actual, scrollback) ==
    ({actual[i] : i \in 1..RingLen(actual)}
        \cup {scrollback[i] : i \in 1..RingLen(scrollback)}) \ {None}

\* Rc: a cell no slot points to is dropped.
Collect(cells, actual, scrollback) ==
    [id \in LineIds |->
        IF id \in Refs(actual, scrollback) THEN cells[id] ELSE NewLine(FALSE)]

Pos(x, y) == [x |-> x, y |-> y]

\* RenderedWindow::new(id, grid_position, grid_size)
RWInit ==
    /\ hidden = FALSE
    /\ anchor_info = FALSE
    /\ window_type = "Editor"
    /\ grid_size \in {[width |-> 1, height |-> h] : h \in 1..RWMaxHeight}
    /\ actual_lines = RingNew(grid_size.height, None)
    /\ scrollback_lines = RingNew(2 * grid_size.height, None)
    /\ scroll_delta = 0
    /\ viewport_margins = [top |-> 0, bottom |-> 0, inferred |-> TRUE]
    /\ grid_start_position = Pos(0, 0)
    /\ grid_current_position = Pos(0, 0)
    /\ grid_destination = Pos(0, 0)
    /\ position_t = 2
    /\ scroll_animation = [position |-> ScrollZero]
    /\ line_cells = [id \in LineIds |-> NewLine(FALSE)]
    /\ panicked = FALSE
    /\ op = "new"

\* get_target_position with the clamp to the left edge applied before the clamp
\* to the right edge
get_target_position_right_last(grid_rect) ==
    LET destination == Pos(grid_destination.x + grid_rect.min.x,
                           grid_destination.y + grid_rect.min.y)
        height == IF window_type = "Message"
                  THEN grid_size.height - grid_destination.y
                  ELSE grid_size.height
        x == Min(Max(destination.x, grid_rect.min.x),
                 grid_rect.max.x - grid_size.width)
        y0 == Min(destination.y, grid_rect.max.y - height)
        y == IF window_type # "Message" THEN Max(y0, grid_rect.min.y) ELSE y0
    IN  IF ~anchor_info THEN destination ELSE Pos(x, y)

\* get_target_position(grid_rect), grid_rect = [min, max]
get_target_position(grid_rect) ==
    LET destination == Pos(grid_destination.x + grid_rect.min.x,
                           grid_destination.y + grid_rect.min.y)
        height == IF window_type = "Message"
                  THEN grid_size.height - grid_destination.y
                  ELSE grid_size.height
        x == Max(Min(destination.x, grid_rect.max.x - grid_size.width),
                 grid_rect.min.x)
        y0 == Min(destination.y, grid_rect.max.y - height)
        y == IF window_type # "Message" THEN Max(y0, grid_rect.min.y) ELSE y0
    IN  IF ~anchor_info THEN destination ELSE Pos(x, y)

\* The guard of the reset in the Position command: it compares the new height
\* with the length of actual_lines after the resize.
PositionResetsScroll(height, resized_actual) == height # RingLen(resized_actual)

\* a Position command that animates when the window is not drawn at its start
\* position
RWPositionFromCurrent(grid_position, new_grid_size, new_anchor_info, new_window_type) ==
    LET moved == grid_destination # grid_position
        animated == grid_current_position # grid_start_position
        height == new_grid_size.height
        actual == RingResize(actual_lines, height, None)
        scrollback == RingCloneFromIter(RingResize(scrollback_lines, 2 * height, None),
                                        RingIter(actual), 0)
    IN  /\ ~panicked
        /\ actual_lines' = actual
        /\ grid_size' = new_grid_size
        /\ scrollback_lines' = scrollback
        /\ scroll_delta' = 0
        /\ scroll_animation' = IF PositionResetsScroll(height, actual)
                               THEN [position |-> ScrollZero]
                               ELSE scroll_animation
        /\ anchor_info' = new_anchor_info
        /\ window_type' = new_window_type
        /\ hidden' = FALSE
        /\ position_t' = IF hidden THEN 2
                         ELSE IF ~moved THEN position_t
                         ELSE IF animated THEN 0 ELSE 2
        /\ grid_start_position' =
               IF hidden THEN grid_position
               ELSE IF ~moved THEN grid_start_position
               ELSE IF animated THEN grid_current_position ELSE grid_position
        /\ grid_destination' = grid_position
        /\ line_cells' = Collect(line_cells, actual, scrollback)
        /\ op' = "Position"
        /\ UNCHANGED <<viewport_margins, grid_current_position, panicked>>

\* WindowDrawCommand::Position
RWPosition(grid_position, new_grid_size, new_anchor_info, new_window_type) ==
    LET moved == grid_destination # grid_position
        animated == grid_start_position.x # 0 \/ grid_start_position.y # 0
        height == new_grid_size.height
        actual == RingResize(actual_lines, height, None)
        scrollback == RingCloneFromIter(RingResize(scrollback_lines, 2 * height, None),
                                        RingIter(actual), 0)
    IN  /\ ~panicked
        /\ actual_lines' = actual
        /\ grid_size' = new_grid_size
        /\ scrollback_lines' = scrollback
        /\ scroll_delta' = 0
        /\ scroll_animation' = IF PositionResetsScroll(height, actual)
                               THEN [position |-> ScrollZero]
                               ELSE scroll_animation
        /\ anchor_info' = new_anchor_info
        /\ window_type' = new_window_type
        /\ hidden' = FALSE
        /\ position_t' = IF hidden THEN 2
                         ELSE IF ~moved THEN position_t
                         ELSE IF animated THEN 0 ELSE 2
        /\ grid_start_position' =
               IF hidden THEN grid_position
               ELSE IF ~moved THEN grid_start_position
               ELSE IF animated THEN grid_current_position ELSE grid_position
        /\ grid_destination' = grid_position
        /\ line_cells' = Collect(line_cells, actual, scrollback)
        /\ op' = "Position"
        /\ UNCHANGED <<viewport_margins, grid_current_position, panicked>>

\* WindowDrawCommand::DrawLine; border: every fragment has a float border
\* highlight, or some fragment has a winbar highlight
RWDrawLine(row, border) ==
    /\ ~panicked
    /\ row < RingLen(actual_lines)
    /\ \E id \in LineIds \ Refs(actual_lines, scrollback_lines) :
           LET actual == RingSet(actual_lines, row, id)
           IN  /\ \A other \in LineIds \ Refs(actual_lines, scrollback_lines) :
                      id <= other
               /\ actual_lines' = actual
               /\ line_cells' =
                      Collect([line_cells EXCEPT
                                  ![id] = NewLine(viewport_margins.inferred /\ border)],
                              actual, scrollback_lines)
    /\ op' = "DrawLine"
    /\ UNCHANGED <<hidden, anchor_info, window_type, grid_size, scrollback_lines,
                   scroll_delta, viewport_margins, grid_start_position,
                   grid_current_position, grid_destination, position_t,
                   scroll_animation, panicked>>

\* the rotation of the Scroll command applied to regions of any height
ScrollRotationAnyHeight(top, bottom, left, right, rows, cols) ==
    IF left = 0 /\ right = grid_size.width /\ cols = 0
    THEN RingRotate(actual_lines, rows)
    ELSE actual_lines

\* The rotation of the Scroll command, when it applies.
ScrollRotation(top, bottom, left, right, rows, cols) ==
    IF top = 0 /\ bottom = grid_size.height /\ left = 0
       /\ right = grid_size.width /\ cols = 0
    THEN RingRotate(actual_lines, rows)
    ELSE actual_lines

\* WindowDrawCommand::Scroll
RWScroll(top, bottom, left, right, rows, cols) ==
    /\ ~panicked
    /\ actual_lines' = ScrollRotation(top, bottom, left, right, rows, cols)
    /\ op' = "Scroll"
    /\ UNCHANGED <<hidden, anchor_info, window_type, grid_size, scrollback_lines,
                   scroll_delta, viewport_margins, grid_start_position,
                   grid_current_position, grid_destination, position_t,
                   scroll_animation, line_cells, panicked>>

\* a Clear command that leaves the scroll animation running
RWClearKeepsScroll ==
    /\ ~panicked
    /\ scroll_delta' = 0
    /\ scrollback_lines' = RingFill(scrollback_lines, None)
    /\ line_cells' = Collect(line_cells, actual_lines, scrollback_lines')
    /\ op' = "Clear"
    /\ UNCHANGED <<hidden, anchor_info, window_type, grid_size, actual_lines,
                   viewport_margins, grid_start_position, grid_current_position,
                   grid_destination, position_t, scroll_animation, panicked>>

\* WindowDrawCommand::Clear
RWClear ==
    /\ ~panicked
    /\ scroll_delta' = 0
    /\ scrollback_lines' = RingFill(scrollback_lines, None)
    /\ scroll_animation' = [position |-> ScrollZero]
    /\ line_cells' = Collect(line_cells, actual_lines, scrollback_lines')
    /\ op' = "Clear"
    /\ UNCHANGED <<hidden, anchor_info, window_type, grid_size, actual_lines,
                   viewport_margins, grid_start_position, grid_current_position,
                   grid_destination, position_t, panicked>>

\* a Show command that leaves the position animation of a hidden window running
RWShowAnimates ==
    /\ ~panicked
    /\ hidden' = FALSE
    /\ scroll_animation' = IF hidden THEN [position |-> ScrollZero]
                           ELSE scroll_animation
    /\ op' = IF hidden THEN "Show" ELSE "Show_visible"
    /\ UNCHANGED <<position_t, grid_start_position>>
    /\ UNCHANGED <<anchor_info, window_type, grid_size, scrollback_lines,
                   actual_lines, scroll_delta, viewport_margins,
                   grid_current_position, grid_destination, line_cells, panicked>>

\* WindowDrawCommand::Show; op tells whether the window was hidden
RWShow ==
    /\ ~panicked
    /\ IF hidden
       THEN /\ hidden' = FALSE
            /\ position_t' = 2
            /\ grid_start_position' = grid_destination
            /\ scroll_animation' = [position |-> ScrollZero]
       ELSE UNCHANGED <<hidden, position_t, grid_start_position, scroll_animation>>
    /\ op' = IF hidden THEN "Show" ELSE "Show_visible"
    /\ UNCHANGED <<anchor_info, window_type, grid_size, scrollback_lines,
                   actual_lines, scroll_delta, viewport_margins,
                   grid_current_position, grid_destination, line_cells, panicked>>

\* WindowDrawCommand::Hide
RWHide ==
    /\ ~panicked
    /\ hidden' = TRUE
    /\ op' = "Hide"
    /\ UNCHANGED <<anchor_info, window_type, grid_size, scrollback_lines,
                   actual_lines, scroll_delta, viewport_margins,
                   grid_start_position, grid_current_position, grid_destination,
                   position_t, scroll_animation, line_cells, panicked>>

\* f64::round of the number halves / 2: to the nearest integer, a half away
\* from zero
Round(halves) == Signum(halves) * ((Abs(halves) + 1) \div 2)

\* a Viewport command that adds its delta to the pending one
RWViewportAdds(delta) ==
    /\ ~panicked
    /\ scroll_delta' = scroll_delta + delta
    /\ op' = "Viewport"
    /\ UNCHANGED <<hidden, anchor_info, window_type, grid_size, scrollback_lines,
                   actual_lines, viewport_margins, grid_start_position,
                   grid_current_position, grid_destination, position_t,
                   scroll_animation, line_cells, panicked>>

\* WindowDrawCommand::Viewport; delta is scroll_delta.round()
RWViewport(delta) ==
    /\ ~panicked
    /\ scroll_delta' = delta
    /\ op' = "Viewport"
    /\ UNCHANGED <<hidden, anchor_info, window_type, grid_size, scrollback_lines,
                   actual_lines, viewport_margins, grid_start_position,
                   grid_current_position, grid_destination, position_t,
                   scroll_animation, line_cells, panicked>>

\* WindowDrawCommand::ViewportMargins
RWViewportMargins(top, bottom) ==
    /\ ~panicked
    /\ viewport_margins' = [top |-> top, bottom |-> bottom, inferred |-> FALSE]
    /\ op' = "ViewportMargins"
    /\ UNCHANGED <<hidden, anchor_info, window_type, grid_size, scrollback_lines,
                   actual_lines, scroll_delta, grid_start_position,
                   grid_current_position, grid_destination, position_t,
                   scroll_animation, line_cells, panicked>>

IsBorder(slot) == slot # None /\ line_cells[slot].is_inferred_border

\* number of leading elements of a sequence that are inferred border lines
RECURSIVE LeadingBorders(_)
LeadingBorders(s) ==
    IF s = <<>> \/ ~IsBorder(Head(s)) THEN 0 ELSE 1 + LeadingBorders(Tail(s))

Reverse(s) == [k \in 1..Len(s) |-> s[Len(s) + 1 - k]]

\* infer_viewport_margins run whether or not the margins are inferred
InferredMarginsAlways ==
    LET top == LeadingBorders(RingIter(actual_lines))
        bottom == LeadingBorders(
                      Reverse(RingIterRange(actual_lines, top,
                                            RingLen(actual_lines))))
    IN  [top |-> top, bottom |-> bottom, inferred |-> viewport_margins.inferred]

\* infer_viewport_margins
InferredMargins ==
    IF viewport_margins.inferred
    THEN LET top == LeadingBorders(RingIter(actual_lines))
             bottom == LeadingBorders(
                           Reverse(RingIterRange(actual_lines, top,
                                                 RingLen(actual_lines))))
         IN  [top |-> top, bottom |-> bottom, inferred |-> TRUE]
    ELSE viewport_margins

\* flush: the scroll offset of a far scroll
FarScrollOffset(far_lines, delta) == Whole(-(far_lines * Signum(delta)))

\* the scroll offset of a scroll in steps without the clamp
StepScrollOffsetUnclamped(scroll_offset, delta, max_delta) ==
    ScrollMinus(scroll_offset, delta)

\* flush: the scroll offset of a scroll in steps
StepScrollOffset(scroll_offset, delta, max_delta) ==
    ScrollClamp(ScrollMinus(scroll_offset, delta), max_delta)

\* flush: the history lines a far scroll empties
RECURSIVE EmptyLines(_, _, _)
EmptyLines(rb, from, to) ==
    IF from >= to THEN rb ELSE EmptyLines(RingSet(rb, from, None), from + 1, to)

\* a scrollback sized for the whole grid, margins included
ScrollbackSizeOfGrid(inner_size) == 2 * grid_size.height

\* flush: the length of the scrollback for an inner view of inner_size rows
ScrollbackSize(inner_size) == 2 * inner_size

\* the rotation of flush with its direction inverted
FlushRotationBackwards(delta) == RingRotate(scrollback_lines, -delta)

\* flush without the rotation of the scrollback
FlushRotationNone(delta) == scrollback_lines

\* flush: scrollback_lines.rotate(scroll_delta)
FlushRotation(delta) == RingRotate(scrollback_lines, delta)

\* The paths of flush: the early return after a resize of the scrollback, no
\* pending delta, a far scroll, a scroll in steps.
FlushOps == {"flush_resized", "flush", "flush_far", "flush_step"}

\* flush(renderer_settings); far_setting is scroll_animation_far_lines
RWFlush(far_setting) ==
    LET margins == InferredMargins
        len == RingLen(actual_lines)
        inner_end == len - margins.bottom
        inner_size == Max(0, inner_end - margins.top)
        inner_view == RingIterRange(actual_lines, margins.top,
                                    margins.top + inner_size)
        changed == inner_size # RingLen(scrollback_lines) \div 2
        rotated == RingCloneFromIter(FlushRotation(scroll_delta), inner_view, 0)
        size_diff == RingLen(rotated) - grid_size.height
        max_delta == USizeWrap(size_diff)
        far == Abs(scroll_delta) > max_delta
        far_lines == Min(far_setting, len)
        underflow == inner_end < 0 \/ (~changed /\ scroll_delta # 0 /\ size_diff < 0)
    IN  /\ ~panicked
        /\ \/ /\ underflow
              /\ panicked' = TRUE
              /\ op' = "panic"
              /\ UNCHANGED <<hidden, anchor_info, window_type, grid_size,
                             scrollback_lines, actual_lines, scroll_delta,
                             viewport_margins, grid_start_position,
                             grid_current_position, grid_destination, position_t,
                             scroll_animation, line_cells>>
           \/ /\ viewport_margins' = margins
              /\ IF changed
                 THEN /\ scrollback_lines' =
                             RingCloneFromIter(
                                 RingResize(scrollback_lines,
                                            ScrollbackSize(inner_size), None),
                                 inner_view, 0)
                      /\ scroll_animation' = [position |-> ScrollZero]
                 ELSE /\ scrollback_lines' =
                             IF scroll_delta # 0 /\ far
                             THEN IF scroll_delta > 0
                                  THEN EmptyLines(rotated, -far_lines, 0)
                                  ELSE EmptyLines(rotated, len, len + far_lines)
                             ELSE rotated
                      /\ scroll_animation' =
                             IF scroll_delta = 0 THEN scroll_animation
                             ELSE IF far
                             THEN [position |-> FarScrollOffset(far_lines, scroll_delta)]
                             ELSE [position |->
                                      StepScrollOffset(scroll_animation.position,
                                                       scroll_delta, max_delta)]
              /\ Abs(scroll_animation'.position.n) <= RWMaxScroll
              /\ scroll_delta' = 0
              /\ line_cells' = Collect(line_cells, actual_lines, scrollback_lines')
              /\ op' = IF changed THEN "flush_resized"
                        ELSE IF scroll_delta = 0 THEN "flush"
                        ELSE IF far THEN "flush_far" ELSE "flush_step"
              /\ UNCHANGED <<hidden, anchor_info, window_type, grid_size,
                             actual_lines, grid_start_position,
                             grid_current_position, grid_destination, position_t,
                             panicked>>

\* prepare_lines: the slots it visits, in order
PreparedSlots ==
    LET scroll_offset_lines == scroll_animation.position.n
        height == grid_size.height
        len == RingLen(actual_lines)
    IN  (IF RingLen(scrollback_lines) # 0
         THEN RingIterRange(scrollback_lines, scroll_offset_lines,
                            scroll_offset_lines + height + 1)
         ELSE <<>>)
        \o RingIterRange(actual_lines, 0, viewport_margins.top)
        \o RingIterRange(actual_lines, len - viewport_margins.bottom, len)

PreparedCells == {PreparedSlots[k] : k \in 1..Len(PreparedSlots)} \ {None}

\* prepare_line without the is_valid check: records the pictures every time
prepare_line_always(line) == [line EXCEPT !.is_valid = TRUE, !.builds = @ + 1]

\* prepare_line: records the pictures of a line whose is_valid is false
prepare_line(line) ==
    IF line.is_valid THEN line
    ELSE [line EXCEPT !.is_valid = TRUE, !.builds = @ + 1]

\* prepare_lines, and prepare_lines straight after prepare_lines
PrepareOps == {"prepare_lines", "prepare_lines_again"}

\* prepare_lines(grid_renderer)
RWPrepareLines ==
    /\ ~panicked
    /\ line_cells' = [id \in LineIds |->
                         IF id \in PreparedCells THEN prepare_line(line_cells[id])
                         ELSE line_cells[id]]
    /\ op' = IF op \in PrepareOps THEN "prepare_lines_again" ELSE "prepare_lines"
    /\ UNCHANGED <<hidden, anchor_info, window_type, grid_size, scrollback_lines,
                   actual_lines, scroll_delta, viewport_margins,
                   grid_start_position, grid_current_position, grid_destination,
                   position_t, scroll_animation, panicked>>

\* CriticallyDampedSpringAnimation::update: the positions a step may reach from
\* p, none of them further from the target 0 than p, the target included.
SpringSteps(p) ==
    IF p.n >= 0
    THEN {q \in [n : 0..p.n, f : BOOLEAN] : q.n < p.n \/ (q.f => p.f)}
    ELSE {q \in [n : p.n..(-1), f : BOOLEAN] : q.n > p.n \/ (p.f => q.f)}
         \cup {ScrollZero}

\* animate(settings, grid_rect, dt), for a dt that is no shorter than
\* position_animation_length
RWAnimate(grid_rect, scroll_position) ==
    /\ ~panicked
    /\ position_t' = IF position_t >= 1 THEN 2 ELSE 1
    /\ grid_current_position' =
           IF position_t' = 0 THEN grid_start_position
           ELSE get_target_position(grid_rect)
    /\ scroll_position \in SpringSteps(scroll_animation.position)
    /\ scroll_animation' = [position |-> scroll_position]
    /\ op' = "animate"
    /\ UNCHANGED <<hidden, anchor_info, window_type, grid_size, scrollback_lines,
                   actual_lines, scroll_delta, viewport_margins,
                   grid_start_position, grid_destination, line_cells, panicked>>

(***************************************************************************)
(* The render loop of create_window                                        *)
(***************************************************************************)
\* the values of refresh_rate and refresh_rate_idle, in Hz
RefreshRates == {0, 1, 60}

\* the time since previous_frame_start when the wait for events begins, in ms
Elapsed == {0, 2000}

\* the events of the window: Focused(true), Focused(false) and any other
Events == {"FocusGained", "FocusLost", "Other"}

\* expected_frame_duration in ms: 1 / refresh_rate.max(1.0) seconds
ExpectedFrameDuration(refresh_rate) == 1000 \div Max(refresh_rate, 1)

\* deadline.saturating_duration_since(Instant::now()), in ms
RecvDuration(refresh_rate, elapsed) ==
    Max(0, ExpectedFrameDuration(refresh_rate) - elapsed)

LoopInit ==
    /\ pc = "loop"
    /\ e = "None"
    /\ should_render = TRUE
    /\ num_consecutive_rendered = 0
    /\ focused = "Focused"
    /\ last_dt = 0
    /\ frame_dt_samples = FALSE
    /\ rx_events = <<>>
    /\ rx_connected = TRUE
    /\ draw_commands = 0
    /\ no_idle \in BOOLEAN
    /\ vsync_kind \in {"Windows", "Wayland"}
    /\ vsync_alive = TRUE
    /\ vsync_count = 0
    /\ vsync_dt = FALSE
    /\ interval = 1
    /\ vsync_signaled = FALSE
    /\ wait_phase = 0
    /\ draw_step = 0
    /\ steps = <<>>
    /\ prepared = FALSE
    /\ animating = FALSE
    /\ wait_duration = 0

\* the wait for events at the top of the loop: try_recv after a rendered frame,
\* recv_timeout until the deadline of the frame otherwise
LoopRecv(refresh_rate, elapsed) ==
    /\ pc = "loop"
    /\ wait_duration' = IF num_consecutive_rendered > 0 THEN 0
                        ELSE RecvDuration(refresh_rate, elapsed)
    /\ IF rx_events # <<>>
       THEN e' = Head(rx_events) /\ rx_events' = Tail(rx_events)
       ELSE /\ e' = IF rx_connected THEN "None" ELSE "Disconnected"
            /\ UNCHANGED rx_events
    /\ pc' = "received"
    /\ UNCHANGED <<should_render, num_consecutive_rendered, focused, last_dt,
                   frame_dt_samples, rx_connected, draw_commands, no_idle,
                   vsync_kind, vsync_alive, vsync_count, vsync_dt, interval,
                   vsync_signaled, wait_phase, draw_step, steps, prepared,
                   animating>>

\* the loop breaks on Err(_): also when the wait for an event ran out
LoopExitOnTimeout ==
    /\ pc = "received"
    /\ e \in {"Disconnected", "None"}
    /\ pc' = "exit"
    /\ wait_duration' = 0
    /\ UNCHANGED <<e, should_render, num_consecutive_rendered, focused, last_dt,
                   frame_dt_samples, rx_events, rx_connected, draw_commands,
                   no_idle, vsync_kind, vsync_alive, vsync_count, vsync_dt,
                   interval, vsync_signaled, wait_phase, draw_step, steps,
                   prepared, animating>>

\* Err(true): the channel is disconnected, the loop breaks
LoopExit ==
    /\ pc = "received"
    /\ e = "Disconnected"
    /\ pc' = "exit"
    /\ wait_duration' = 0
    /\ UNCHANGED <<e, should_render, num_consecutive_rendered, focused, last_dt,
                   frame_dt_samples, rx_events, rx_connected, draw_commands,
                   no_idle, vsync_kind, vsync_alive, vsync_count, vsync_dt,
                   interval, vsync_signaled, wait_phase, draw_step, steps,
                   prepared, animating>>

\* Ok(e): the focus is recorded and the event handled; handled is the result of
\* handle_event for an event other than a change of focus
LoopHandleEvent(handled) ==
    /\ pc = "received"
    /\ e \in Events
    /\ focused' = IF e = "FocusGained" THEN "Focused"
                  ELSE IF e = "FocusLost" THEN "UnfocusedNotDrawn"
                  ELSE focused
    /\ should_render' = (should_render \/ e = "FocusGained"
                         \/ (e = "Other" /\ handled))
    /\ e' = "None"
    /\ wait_duration' = 0
    /\ pc' = "loop"
    /\ UNCHANGED <<num_consecutive_rendered, last_dt, frame_dt_samples,
                   rx_events, rx_connected, draw_commands, no_idle, vsync_kind,
                   vsync_alive, vsync_count, vsync_dt, interval, vsync_signaled,
                   wait_phase, draw_step, steps, prepared, animating>>

\* vsync.set_refresh_rate: the interval of vsync_win follows the measured rate
\* once a vsync was seen; VSyncWayland::set_refresh_rate does nothing
SetRefreshRate(new_interval) ==
    IF vsync_kind = "Windows"
    THEN IF vsync_dt THEN new_interval ELSE 1
    ELSE interval

\* No event: the frame begins. set_refresh_rate, then prepare_frame handles
\* every draw command that waits, without blocking; result is its return value.
LoopPrepareFrame(result, new_interval) ==
    /\ pc = "received"
    /\ e = "None"
    /\ interval' = SetRefreshRate(new_interval)
    /\ draw_commands' = 0
    /\ should_render' = (should_render \/ result)
    /\ prepared' = should_render'
    /\ animating' = FALSE
    /\ steps' = <<"prepare_frame">>
    /\ wait_duration' = 0
    /\ pc' = "animate"
    /\ UNCHANGED <<e, num_consecutive_rendered, focused, last_dt,
                   frame_dt_samples, rx_events, rx_connected, no_idle,
                   vsync_kind, vsync_alive, vsync_count, vsync_dt,
                   vsync_signaled, wait_phase, draw_step>>

\* dt > 0: dt is the average of frame_dt_avg after a rendered frame, else last_dt
DtPositive ==
    IF num_consecutive_rendered > 0 /\ frame_dt_samples THEN TRUE
    ELSE last_dt > 0

\* should_render that forgets the result of animate_frame
ShouldRenderIgnoringAnimation(result) == should_render

\* should_render |= window_wrapper.animate_frame(step)
ShouldRenderAfterAnimate(result) == should_render \/ result

\* The num_steps calls of animate_frame; result is whether one of them returned
\* true. With dt = 0 num_steps is 0 and animate_frame is not called.
LoopAnimateFrame(result) ==
    /\ pc = "animate"
    /\ IF DtPositive
       THEN /\ should_render' = ShouldRenderAfterAnimate(result)
            /\ animating' = result
            /\ steps' = Append(steps, "animate_frame")
       ELSE UNCHANGED <<should_render, animating, steps>>
    /\ pc' = "decide"
    /\ UNCHANGED <<e, num_consecutive_rendered, focused, last_dt,
                   frame_dt_samples, rx_events, rx_connected, draw_commands,
                   no_idle, vsync_kind, vsync_alive, vsync_count, vsync_dt,
                   interval, vsync_signaled, wait_phase, draw_step, prepared,
                   wait_duration>>

\* if should_render || cmd_line_settings.no_idle: draw_frame is called
LoopDrawFrame ==
    /\ pc = "decide"
    /\ should_render \/ no_idle
    /\ pc' = "draw_frame"
    /\ draw_step' = 1
    /\ UNCHANGED <<e, should_render, num_consecutive_rendered, focused, last_dt,
                   frame_dt_samples, rx_events, rx_connected, draw_commands,
                   no_idle, vsync_kind, vsync_alive, vsync_count, vsync_dt,
                   interval, vsync_signaled, wait_phase, steps, prepared,
                   animating, wait_duration>>

\* else: nothing is drawn in this iteration
LoopSkipFrame ==
    /\ pc = "decide"
    /\ ~(should_render \/ no_idle)
    /\ num_consecutive_rendered' = 0
    /\ pc' = "end"
    /\ UNCHANGED <<e, should_render, focused, last_dt, frame_dt_samples,
                   rx_events, rx_connected, draw_commands, no_idle, vsync_kind,
                   vsync_alive, vsync_count, vsync_dt, interval, vsync_signaled,
                   wait_phase, draw_step, steps, prepared, animating,
                   wait_duration>>

\* draw_frame with swap_buffers before the wait for vsync
DrawFrameStepsSwapFirst ==
    <<"prepare_lines", "draw", "flush_and_submit", "swap_buffers",
      "wait_for_vsync">>

\* WinitWindowWrapper::draw_frame: its calls, in order
DrawFrameSteps ==
    <<"prepare_lines", "draw", "flush_and_submit", "wait_for_vsync",
      "swap_buffers">>

\* draw_frame is at its call of vsync.wait_for_vsync()
AtWaitForVSync ==
    pc = "draw_frame" /\ DrawFrameSteps[draw_step] = "wait_for_vsync"

\* the call draw_frame is at has returned
StepDone ==
    /\ steps' = Append(steps, DrawFrameSteps[draw_step])
    /\ IF draw_step = Len(DrawFrameSteps)
       THEN pc' = "drawn" /\ draw_step' = 0
       ELSE pc' = pc /\ draw_step' = draw_step + 1

\* a call of draw_frame that does not wait
DrawFrameStep ==
    /\ pc = "draw_frame"
    /\ ~AtWaitForVSync
    /\ StepDone
    /\ UNCHANGED <<e, should_render, num_consecutive_rendered, focused, last_dt,
                   frame_dt_samples, rx_events, rx_connected, draw_commands,
                   no_idle, vsync_kind, vsync_alive, vsync_count, vsync_dt,
                   interval, vsync_signaled, wait_phase, prepared, animating,
                   wait_duration>>

\* vsync_win wait_for_vsync: wait_while(count < last_vsync + interval), with no
\* timeout; then last_vsync = count and dt = the average of the vsync thread
WaitForVSyncWin ==
    /\ AtWaitForVSync
    /\ vsync_kind = "Windows"
    /\ vsync_count >= interval
    /\ vsync_count' = 0
    /\ vsync_dt' = TRUE
    /\ StepDone
    /\ UNCHANGED <<e, should_render, num_consecutive_rendered, focused, last_dt,
                   frame_dt_samples, rx_events, rx_connected, draw_commands,
                   no_idle, vsync_kind, vsync_alive, interval, vsync_signaled,
                   wait_phase, prepared, animating, wait_duration>>

\* vsync_wayland wait_for_vsync: the flag is cleared and a frame callback asked
\* for, then wait_timeout_while(!signaled) for at most 100 ms; twice. A wait
\* ends when the flag is set or the 100 ms are over.
WaitForVSyncWayland ==
    /\ AtWaitForVSync
    /\ vsync_kind = "Wayland"
    /\ \/ /\ wait_phase \in {0, 1}
          /\ vsync_signaled' = FALSE
          /\ wait_phase' = wait_phase + 1
          /\ UNCHANGED <<pc, draw_step, steps>>
       \/ /\ wait_phase = 2
          /\ wait_phase' = 0
          /\ StepDone
          /\ UNCHANGED vsync_signaled
    /\ UNCHANGED <<e, should_render, num_consecutive_rendered, focused, last_dt,
                   frame_dt_samples, rx_events, rx_connected, draw_commands,
                   no_idle, vsync_kind, vsync_alive, vsync_count, vsync_dt,
                   interval, prepared, animating, wait_duration>>

\* after draw_frame: a sample of the frame time once more than two frames were
\* rendered in a row, should_render = false, num_consecutive_rendered += 1
LoopFrameDrawn ==
    /\ pc = "drawn"
    /\ frame_dt_samples' = (frame_dt_samples \/ num_consecutive_rendered > 2)
    /\ should_render' = FALSE
    /\ num_consecutive_rendered' = Min(num_consecutive_rendered + 1,
                                       LoopMaxRendered)
    /\ pc' = "end"
    /\ UNCHANGED <<e, focused, last_dt, rx_events, rx_connected, draw_commands,
                   no_idle, vsync_kind, vsync_alive, vsync_count, vsync_dt,
                   interval, vsync_signaled, wait_phase, draw_step, steps,
                   prepared, animating, wait_duration>>

\* the end of a frame iteration: last_dt is the time the frame took
LoopEndFrame ==
    /\ pc = "end"
    /\ last_dt' = 1
    /\ focused' = IF focused = "UnfocusedNotDrawn" THEN "Unfocused" ELSE focused
    /\ pc' = "loop"
    /\ UNCHANGED <<e, should_render, num_consecutive_rendered, frame_dt_samples,
                   rx_events, rx_connected, draw_commands, no_idle, vsync_kind,
                   vsync_alive, vsync_count, vsync_dt, interval, vsync_signaled,
                   wait_phase, draw_step, steps, prepared, animating,
                   wait_duration>>

\* the event loop sends an event to the render thread
SendEvent(event) ==
    /\ pc # "exit"
    /\ rx_connected
    /\ Len(rx_events) < LoopMaxEvents
    /\ rx_events' = Append(rx_events, event)
    /\ UNCHANGED <<pc, e, should_render, num_consecutive_rendered, focused,
                   last_dt, frame_dt_samples, rx_connected, draw_commands,
                   no_idle, vsync_kind, vsync_alive, vsync_count, vsync_dt,
                   interval, vsync_signaled, wait_phase, draw_step, steps,
                   prepared, animating, wait_duration>>

\* the event loop ends and drops the sender of the channel
CloseChannel ==
    /\ pc # "exit"
    /\ rx_connected
    /\ rx_connected' = FALSE
    /\ UNCHANGED <<pc, e, should_render, num_consecutive_rendered, focused,
                   last_dt, frame_dt_samples, rx_events, draw_commands, no_idle,
                   vsync_kind, vsync_alive, vsync_count, vsync_dt, interval,
                   vsync_signaled, wait_phase, draw_step, steps, prepared,
                   animating, wait_duration>>

\* the bridge sends a batch of draw commands
SendDrawCommands ==
    /\ pc # "exit"
    /\ draw_commands < LoopMaxCommands
    /\ draw_commands' = draw_commands + 1
    /\ UNCHANGED <<pc, e, should_render, num_consecutive_rendered, focused,
                   last_dt, frame_dt_samples, rx_events, rx_connected, no_idle,
                   vsync_kind, vsync_alive, vsync_count, vsync_dt, interval,
                   vsync_signaled, wait_phase, draw_step, steps, prepared,
                   animating, wait_duration>>

\* The source of vsync signals signals: the vsync thread of vsync_win counts a
\* DwmFlush, the dispatcher of vsync_wayland sets the flag for a frame callback.
VSyncSignal ==
    /\ pc # "exit"
    /\ vsync_alive
    /\ IF vsync_kind = "Windows"
       THEN /\ vsync_count < LoopMaxInterval
            /\ vsync_count' = vsync_count + 1
            /\ UNCHANGED vsync_signaled
       ELSE /\ wait_phase > 0
            /\ ~vsync_signaled
            /\ vsync_signaled' = TRUE
            /\ UNCHANGED vsync_count
    /\ UNCHANGED <<pc, e, should_render, num_consecutive_rendered, focused,
                   last_dt, frame_dt_samples, rx_events, rx_connected,
                   draw_commands, no_idle, vsync_kind, vsync_alive, vsync_dt,
                   interval, wait_phase, draw_step, steps, prepared, animating,
                   wait_duration>>

\* the source of vsync signals stops signalling for good
VSyncStops ==
    /\ pc # "exit"
    /\ vsync_alive
    /\ vsync_alive' = FALSE
    /\ UNCHANGED <<pc, e, should_render, num_consecutive_rendered, focused,
                   last_dt, frame_dt_samples, rx_events, rx_connected,
                   draw_commands, no_idle, vsync_kind, vsync_count, vsync_dt,
                   interval, vsync_signaled, wait_phase, draw_step, steps,
                   prepared, animating, wait_duration>>

(***************************************************************************)
(* The grid size sent to the editor                                        *)
(***************************************************************************)
\* an unsigned number in two halves of 16 bits: u32 sizes and their quotients
WideBase == 2^16
Wide(n) == [hi |-> 0, lo |-> n]
\* a - b of two u32 below WideBase, wrapped when b > a
WideWrappingSub(a, b) ==
    IF a >= b THEN Wide(a - b)
    ELSE [hi |-> WideBase - 1, lo |-> WideBase - (b - a)]
WideDiv(n, d) ==
    [hi |-> n.hi \div d, lo |-> ((n.hi % d) * WideBase + n.lo) \div d]
WideLess(n, m) == n.hi < m.hi \/ (n.hi = m.hi /\ n.lo < m.lo)
WideMax(n, m) == IF WideLess(n, m) THEN m ELSE n

\* Option of a record: Nothing, or Some(x) with the value The(o)
Nothing == {}
Some(x) == {x}
The(o) == CHOOSE x \in o : TRUE

Size(w, h) == [width |-> w, height |-> h]
Padding(l, r, t, b) == [left |-> l, right |-> r, top |-> t, bottom |-> b]
DEFAULT_WINDOW_GEOMETRY == Size(Wide(100), Wide(50))

\* the subtraction of the padding underflows
PaddingExceeds(size, padding) ==
    \/ size.width < padding.left + padding.right
    \/ size.height < padding.top + padding.bottom

\* content_size: the window without its padding
ContentSize(size, padding) ==
    Size(WideWrappingSub(size.width, padding.left + padding.right),
         WideWrappingSub(size.height, padding.top + padding.bottom))

\* GridRenderer::convert_physical_to_grid
convert_physical_to_grid(physical) ==
    Size(WideDiv(physical.width, font_dimensions.width),
         WideDiv(physical.height, font_dimensions.height))

\* "Have a minimum size"
BelowMinimumNever(new_grid_size) == FALSE
BelowMinimum(new_grid_size) ==
    \/ WideLess(new_grid_size.width, Wide(MIN_WINDOW_WIDTH))
    \/ WideLess(new_grid_size.height, Wide(MIN_WINDOW_HEIGHT))

\* WinitWindowWrapper::handle_new_grid_size (window/mod.rs)
handle_new_grid_size(new_size, padding) ==
    LET new_grid_size == convert_physical_to_grid(ContentSize(new_size, padding))
    IN  IF BelowMinimum(new_grid_size)
        THEN /\ size_op' = "ignored"
             /\ UNCHANGED <<saved_grid_size, resize_sent>>
        ELSE IF saved_grid_size = Some(new_grid_size)
        THEN /\ size_op' = "matched"
             /\ UNCHANGED <<saved_grid_size, resize_sent>>
        ELSE /\ saved_grid_size' = Some(new_grid_size)
             /\ resize_sent' = Some(new_grid_size)
             /\ size_op' = "sent"

\* WinitWindowWrapper::get_grid_size_from_window (window/window_wrapper.rs)
GridSizeUnraised(size, padding) ==
    convert_physical_to_grid(ContentSize(size, padding))
get_grid_size_from_window(size, padding) ==
    LET new_grid_size == convert_physical_to_grid(ContentSize(size, padding))
    IN  Size(WideMax(new_grid_size.width, Wide(MIN_WINDOW_WIDTH)),
             WideMax(new_grid_size.height, Wide(MIN_WINDOW_HEIGHT)))

\* WinitWindowWrapper::update_grid_size_from_window
update_grid_size_from_window(size, padding) ==
    LET new_grid_size == get_grid_size_from_window(size, padding)
    IN  IF saved_grid_size = Some(new_grid_size)
        THEN /\ size_op' = "matched"
             /\ UNCHANGED <<saved_grid_size, resize_sent>>
        ELSE /\ saved_grid_size' = Some(new_grid_size)
             /\ resize_sent' = Some(new_grid_size)
             /\ size_op' = IF new_grid_size = GridSizeUnraised(size, padding)
                           THEN "sent" ELSE "raised"

\* the size of the window, the font or the padding changed since the last frame
SizeChanged ==
    \/ saved_inner_size # window_inner_size
    \/ font_changed_last_frame
    \/ padding_setting # window_padding

\* the subtraction of the padding panics where overflow is checked
SizePanic ==
    /\ size_panicked' = TRUE
    /\ size_op' = "panic"
    /\ UNCHANGED <<snapshot, window_inner_size, padding_setting, saved_inner_size,
                   window_padding, font_dimensions, font_changed_last_frame,
                   saved_grid_size, resize_sent>>

\* Renderer::handle_draw_commands: a font change among the draw commands
HandleFontChange(new_font, changed_last_frame) ==
    /\ font_dimensions' = IF new_font = Nothing THEN font_dimensions ELSE The(new_font)
    /\ font_changed_last_frame' = (changed_last_frame \/ new_font # Nothing)

\* WinitWindowWrapper::prepare_frame of window/mod.rs; init_size is the size
\* init_window_size asks for, Nothing when it is not called
PrepareFrameMod(new_font, init_size) ==
    /\ snapshot = "mod"
    /\ ~size_panicked
    /\ \/ /\ SizeChanged
          /\ PaddingExceeds(window_inner_size, padding_setting)
          /\ SizePanic
       \/ /\ window_padding' = padding_setting
          /\ IF SizeChanged
             THEN /\ saved_inner_size' = window_inner_size
                  /\ handle_new_grid_size(window_inner_size, padding_setting)
                  /\ HandleFontChange(new_font, FALSE)
             ELSE /\ size_op' = "none"
                  /\ HandleFontChange(new_font, font_changed_last_frame)
                  /\ UNCHANGED <<saved_inner_size, saved_grid_size, resize_sent>>
          /\ init_size # Nothing => saved_grid_size' = Nothing
          /\ window_inner_size' = IF init_size = Nothing THEN window_inner_size ELSE The(init_size)
          /\ UNCHANGED <<snapshot, padding_setting, size_panicked>>

\* WinitWindowWrapper::prepare_frame of window/window_wrapper.rs; requested is
\* the size update_window_size_from_grid sets, Nothing without a resize request
PrepareFrameWrapper(new_font, requested) ==
    /\ snapshot = "window_wrapper"
    /\ ~size_panicked
    /\ \/ /\ requested = Nothing
          /\ SizeChanged
          /\ PaddingExceeds(window_inner_size, padding_setting)
          /\ SizePanic
       \/ /\ IF requested # Nothing
             THEN /\ window_inner_size' = The(requested)
                  /\ size_op' = "none"
                  /\ HandleFontChange(new_font, font_changed_last_frame)
                  /\ UNCHANGED <<window_padding, saved_inner_size,
                                 saved_grid_size, resize_sent>>
             ELSE IF SizeChanged
             THEN /\ window_padding' = padding_setting
                  /\ saved_inner_size' = window_inner_size
                  /\ update_grid_size_from_window(window_inner_size, padding_setting)
                  /\ HandleFontChange(new_font, FALSE)
                  /\ UNCHANGED window_inner_size
             ELSE /\ size_op' = "none"
                  /\ HandleFontChange(new_font, font_changed_last_frame)
                  /\ UNCHANGED <<window_inner_size, window_padding, saved_inner_size,
                                 saved_grid_size, resize_sent>>
          /\ UNCHANGED <<snapshot, padding_setting, size_panicked>>

\* the user resizes the window
WindowResized(size) ==
    /\ window_inner_size' = size
    /\ UNCHANGED <<snapshot, padding_setting, saved_inner_size, window_padding,
                   font_dimensions, font_changed_last_frame, saved_grid_size,
                   resize_sent, size_panicked, size_op>>

\* the user sets the padding options
PaddingSet(padding) ==
    /\ padding_setting' = padding
    /\ UNCHANGED <<snapshot, window_inner_size, saved_inner_size, window_padding,
                   font_dimensions, font_changed_last_frame, saved_grid_size,
                   resize_sent, size_panicked, size_op>>

\* WinitWindowWrapper::new, before the first frame
SizeInit ==
    /\ snapshot \in {"mod", "window_wrapper"}
    /\ window_inner_size \in {Size(MIN_WINDOW_WIDTH, MIN_WINDOW_HEIGHT),
                       Size(SizeMaxWidth, SizeMaxHeight)}
    /\ padding_setting = Padding(0, 0, 0, 0)
    /\ saved_inner_size = window_inner_size
    /\ window_padding = Padding(0, 0, 0, 0)
    /\ font_dimensions = Size(1, 1)
    /\ font_changed_last_frame = FALSE
    /\ saved_grid_size = IF snapshot = "mod" THEN Nothing
                         ELSE Some(DEFAULT_WINDOW_GEOMETRY)
    /\ resize_sent = Nothing
    /\ size_panicked = FALSE
    /\ size_op = "new"

(***************************************************************************)
(* CriticallyDampedSpringAnimation and RenderedWindow::animate with small   *)
(* dt, in fixed point                                                       *)
(***************************************************************************)
\* a row, and a row per second, in the units of spring
SpringUnit == 10^5
\* the animation is finished within 0.01 of the target
SpringEpsilon == SpringUnit \div 100
\* the sub-step of the integration, in ms
SpringSubStep == 10
\* position_animation_length, in ms
PositionAnimationLength == 150
\* position_t = 2.0
PositionDone == 2 * PositionAnimationLength

\* integer division that rounds towards zero
TruncDiv(a, b) == Signum(a) * (Abs(a) \div b)

SpringRest == [position |-> 0, velocity |-> 0]

\* acceleration * h for h ms, with zeta = 1 and omega = 4 / (zeta * 0.3 s):
\* (omega^2 * (0 - position) - 2 * zeta * omega * velocity) * h / 1000
\*   = -(1600 / 9 * position + 80 / 3 * velocity) * h / 1000
SpringAcceleration(s, h) ==
    TruncDiv(-(80 * s.position + 12 * s.velocity) * h, 450)

\* one sub-step of h ms
SpringSubStepOf(s, h) ==
    LET velocity == s.velocity + SpringAcceleration(s, h)
    IN  [position |-> s.position + TruncDiv(velocity * h, 1000),
         velocity |-> velocity]

\* the sub-steps of a frame of dt ms
RECURSIVE SpringIntegrate(_, _)
SpringIntegrate(s, dt) ==
    IF dt <= 0 THEN s
    ELSE LET h == Min(dt, SpringSubStep)
         IN  SpringIntegrate(SpringSubStepOf(s, h), dt - h)

\* CriticallyDampedSpringAnimation::update(dt, scroll_animation_length): the
\* animation afterwards
SpringUpdate(s, dt) ==
    LET after == SpringIntegrate(s, dt)
    IN  IF Abs(after.position) < SpringEpsilon THEN SpringRest ELSE after

\* what update returns
SpringScrolling(s, dt) == Abs(SpringIntegrate(s, dt).position) >= SpringEpsilon

\* the eased t: the place of the window between start and target
Ease(t) == Min(t, PositionAnimationLength)

\* what animate returns
AnimateResultAlways(running, moved, scrolled) == TRUE
AnimateResult(running, moved, scrolled) == running \/ moved \/ scrolled

\* RenderedWindow::animate(settings, grid_rect, dt) with dt = spring_dt
SpringAnimate ==
    LET running == spring_t < PositionAnimationLength
        t == IF running THEN Min(spring_t + spring_dt, PositionAnimationLength)
             ELSE PositionDone
        moved == spring_distance /\ Ease(t) # Ease(spring_t)
        scrolled == SpringScrolling(spring, spring_dt)
    IN  /\ spring_t' = t
        /\ spring' = SpringUpdate(spring, spring_dt)
        /\ scrolling' = scrolled
        /\ animate_result' = AnimateResult(running, moved, scrolled)
        /\ spring_called' = TRUE
        /\ UNCHANGED <<spring_dt, spring_distance, spring_start>>

\* a window whose scroll animation was started by flush, or is under way
SpringInit ==
    /\ spring \in [position : {n * SpringUnit :
                                 n \in (-SpringMaxPosition)..SpringMaxPosition},
                   velocity : {-SpringMaxVelocity * SpringUnit, 0,
                               SpringMaxVelocity * SpringUnit}]
    /\ spring_dt \in {4, SpringSubStep, 16}
    /\ spring_t \in {0, PositionDone}
    /\ spring_distance \in BOOLEAN
    /\ scrolling = FALSE
    /\ animate_result = FALSE
    /\ spring_start = spring
    /\ spring_called = FALSE

(***************************************************************************)
(* CharacterGrid                                                           *)
(***************************************************************************)
\* default_cell!() and the absence of a cell (Option::None of get_cell)
DefaultCell == 0
NoCell == -1
GridCells == 0..CGMaxCell

\* create_lines(width, height): double the height for the scrolling buffer
create_lines(w, h) == [r \in 1..(2 * h) |-> [c \in 1..w |-> DefaultCell]]

\* get_row_array_index(index) for the given lines and top_index, 1-based
RowArrayIndex(ls, top_index, index) == ((top_index + index) % Len(ls)) + 1

\* get_cell(x, y) on the given lines
GetCell(ls, top_index, x, y) ==
    LET line == ls[RowArrayIndex(ls, top_index, y)]
    IN  IF x >= 0 /\ x < Len(line) THEN line[x + 1] ELSE NoCell

\* *get_cell_mut(x, y) = value, where the cell exists
SetCell(ls, top_index, x, y, value) ==
    LET r == RowArrayIndex(ls, top_index, y)
    IN  IF x >= 0 /\ x < Len(ls[r])
        THEN [ls EXCEPT ![r] = [@ EXCEPT ![x + 1] = value]]
        ELSE ls

get_cell(x, y) == GetCell(cg_lines, cg_top_index, x, y)

\* scroll_offset.floor() as isize, scroll_offset in halves of a row
OffsetFloor(offset) == offset \div 2

\* scrolled_row(row_index)
scrolled_row_of(ls, top_index, offset, row_index) ==
    ls[RowArrayIndex(ls, top_index, row_index + OffsetFloor(offset))]

scrolled_row(row_index) ==
    scrolled_row_of(cg_lines, cg_top_index, cg_scroll_offset, row_index)

\* CharacterGrid::new((width, height))
CGInit ==
    /\ cg_width \in 1..CGMaxWidth
    /\ cg_height \in 1..CGMaxHeight
    /\ cg_scroll_offset = 0
    /\ cg_top_index = 0
    /\ cg_lines = create_lines(cg_width, cg_height)
    /\ cg_hung = FALSE
    /\ cg_op = "new"

\* the cell resize keeps at (x, y)
KeptCellOfArray(x, y) == cg_lines[y + 1][x + 1]
KeptCell(x, y) == get_cell(x, y)

\* resize((width, height))
CGResize(w, h) ==
    /\ ~cg_hung
    /\ cg_lines' =
           [r \in 1..(2 * h) |->
               [c \in 1..w |->
                   IF c - 1 < Min(cg_width, w) /\ r - 1 < Min(cg_height, h)
                      /\ KeptCell(c - 1, r - 1) # NoCell
                   THEN KeptCell(c - 1, r - 1)
                   ELSE DefaultCell]]
    /\ cg_width' = w
    /\ cg_height' = h
    /\ cg_scroll_offset' = 0
    /\ cg_top_index' = 0
    /\ cg_op' = "resize"
    /\ UNCHANGED cg_hung

\* clear()
CGClear ==
    /\ ~cg_hung
    /\ cg_lines' = [r \in 1..Len(cg_lines) |-> [c \in 1..cg_width |-> DefaultCell]]
    /\ cg_scroll_offset' = 0
    /\ cg_top_index' = 0
    /\ cg_op' = "clear"
    /\ UNCHANGED <<cg_width, cg_height, cg_hung>>

\* the editor writes a cell of the grid through get_cell_mut(x, y)
CGSetCell(x, y, value) ==
    /\ ~cg_hung
    /\ x < cg_width /\ y < cg_height
    /\ cg_lines' = SetCell(cg_lines, cg_top_index, x, y, value)
    /\ cg_op' = "set"
    /\ UNCHANGED <<cg_width, cg_height, cg_scroll_offset, cg_top_index, cg_hung>>

\* the animation moves scroll_offset (a pub field) towards 0
CGSetScrollOffset(offset) ==
    /\ ~cg_hung
    /\ offset # cg_scroll_offset
    /\ Abs(offset) <= Abs(cg_scroll_offset)
    /\ offset * cg_scroll_offset >= 0
    /\ cg_scroll_offset' = offset
    /\ cg_op' = "offset"
    /\ UNCHANGED <<cg_width, cg_height, cg_lines, cg_top_index, cg_hung>>

\* the condition of the optimized branch of scroll_region
PureVerticalScroll(top, bottom, left, right, cols) ==
    top = 0 /\ bottom = cg_height /\ left = 0 /\ right = cg_width /\ cols = 0

\* (bottom as isize + rows) as usize wraps for a negative sum: the range
\* top..2^64-k is walked from its end
RowRangeWraps(bottom, rows) == rows <= 0 /\ bottom + rows < 0

\* the rows y_iter yields, as isize, in its order; of a wrapped range the rows
\* whose destination is in the grid, which are its first
ScrollRows(top, bottom, rows) ==
    IF rows > 0
    THEN [k \in 1..Max(0, bottom - top - rows) |-> top + rows + k - 1]
    ELSE IF RowRangeWraps(bottom, rows)
    THEN [k \in 1..bottom |-> bottom + rows - k]
    ELSE [k \in 1..Max(0, bottom + rows - top) |-> bottom + rows - k]

\* the columns x_iter yields, in its order (right + cols >= 0)
ScrollCols(left, right, cols) ==
    IF cols > 0
    THEN [k \in 1..Max(0, right - left - cols) |-> left + cols + k - 1]
    ELSE [k \in 1..Max(0, right + cols - left) |-> right + cols - k]

\* the inner loop: the cells of row y copied to row dest_y, cols to the left
RECURSIVE CopyCells(_, _, _, _, _, _)
CopyCells(ls, top_index, xs, y, dest_y, cols) ==
    IF xs = <<>> THEN ls
    ELSE LET x == Head(xs)
             cell_data == GetCell(ls, top_index, x, y)
             copied == IF cell_data # NoCell
                       THEN SetCell(ls, top_index, x - cols, dest_y, cell_data)
                       ELSE ls
         IN  CopyCells(copied, top_index, Tail(xs), y, dest_y, cols)

\* the outer loop
RECURSIVE CopyRows(_, _, _, _, _, _, _)
CopyRows(ls, top_index, height, ys, xs, rows, cols) ==
    IF ys = <<>> THEN ls
    ELSE LET y == Head(ys)
             dest_y == y - rows
             copied == IF dest_y >= 0 /\ dest_y < height
                       THEN CopyCells(ls, top_index, xs, y, dest_y, cols)
                       ELSE ls
         IN  CopyRows(copied, top_index, height, Tail(ys), xs, rows, cols)

\* scroll_offset after a scroll of the whole grid by rows
FullScrollOffsetKept(offset, rows, minmax) == offset
FullScrollOffsetUnclamped(offset, rows, minmax) ==
    IF Abs(rows) > minmax THEN 0 ELSE offset - 2 * rows
FullScrollOffset(offset, rows, minmax) ==
    IF Abs(rows) > minmax THEN 0
    ELSE Max(-2 * minmax, Min(2 * minmax, offset - 2 * rows))

\* scroll_region(top, bottom, left, right, rows, cols)
CGScrollRegion(top, bottom, left, right, rows, cols) ==
    /\ ~cg_hung
    /\ right + cols >= 0
    /\ IF PureVerticalScroll(top, bottom, left, right, cols)
       THEN LET minmax == Len(cg_lines) - cg_height
                offset == FullScrollOffset(cg_scroll_offset, rows, minmax)
            IN  /\ cg_top_index' = cg_top_index + rows
                /\ Abs(cg_top_index') <= CGMaxTop
                /\ cg_scroll_offset' = offset
                /\ cg_op' = IF Abs(rows) > minmax THEN "scroll_jump"
                            ELSE IF offset # cg_scroll_offset - 2 * rows
                            THEN "scroll_clamped"
                            ELSE "scroll_full"
                /\ UNCHANGED <<cg_lines, cg_hung>>
       ELSE /\ cg_lines' = CopyRows(cg_lines, cg_top_index, cg_height,
                                    ScrollRows(top, bottom, rows),
                                    ScrollCols(left, right, cols), rows, cols)
            /\ IF RowRangeWraps(bottom, rows)
               THEN /\ cg_hung' = TRUE
                    /\ cg_op' = "hang"
                    /\ UNCHANGED cg_scroll_offset
               ELSE /\ cg_scroll_offset' = 0
                    /\ cg_op' = "scroll_part"
                    /\ UNCHANGED cg_hung
            /\ UNCHANGED cg_top_index
    /\ UNCHANGED <<cg_width, cg_height>>

(***************************************************************************)
(* The drop shadow of RenderedWindow::draw                                 *)
(***************************************************************************)
\* PixelRect<f32>: a box from min to max
Box(min_x, min_y, max_x, max_y) ==
    [min |-> Pos(min_x, min_y), max |-> Pos(max_x, max_y)]

\* a box without interior
BoxIsEmpty(b) == ~(b.max.x > b.min.x /\ b.max.y > b.min.y)

\* rect.contains_box(&pixel_region_box): the interior of other is in self
contains_box(self, other) ==
    \/ BoxIsEmpty(other)
    \/ /\ self.min.x <= other.min.x /\ other.max.x <= self.max.x
       /\ self.min.y <= other.min.y /\ other.max.y <= self.max.y

\* previous_floating_rects.iter().any(..) of the last rectangle only
ShadowSuppressedByLast(rects, pixel_region_box) ==
    /\ rects # <<>>
    /\ contains_box(rects[Len(rects)], pixel_region_box)

\* previous_floating_rects.iter().any(|rect| rect.contains_box(&pixel_region_box))
ShadowSuppressed(rects, pixel_region_box) ==
    \E i \in 1..Len(rects) : contains_box(rects[i], pixel_region_box)

\* The renderer starts a frame with the settings it polled and no rectangle.
FrameBegin(setting) ==
    /\ previous_floating_rects' = <<>>
    /\ floating_shadow' = setting
    /\ frame_drawn' = <<>>

FrameInit ==
    /\ previous_floating_rects = <<>>
    /\ floating_shadow \in BOOLEAN
    /\ frame_drawn = <<>>

\* draw of the window with this anchor_info.is_some() and pixel_region
RWDraw(floating, pixel_region_box) ==
    LET shadow == /\ floating
                  /\ floating_shadow
                  /\ ~ShadowSuppressed(previous_floating_rects, pixel_region_box)
    IN  /\ Len(frame_drawn) < FrameMaxWindows
        /\ previous_floating_rects' =
               IF shadow THEN Append(previous_floating_rects, pixel_region_box)
               ELSE previous_floating_rects
        /\ frame_drawn' = Append(frame_drawn,
                                 [anchor_info |-> floating,
                                  pixel_region |-> pixel_region_box,
                                  shadow |-> shadow])
        /\ UNCHANGED floating_shadow

(***************************************************************************)
(* The end of the render thread                                            *)
(***************************************************************************)
\* what the window of the operating system answers: is_maximized(),
\* inner_size() and outer_position().ok()
Geometry(maximized, size, position) ==
    [maximized |-> maximized, inner_size |-> size, outer_position |-> position]

ExitInit ==
    /\ os_window = Nothing
    /\ after_loop = "loop"
    /\ save_window_size = <<>>

\* save_window_size(window.is_maximized(), window.inner_size(),
\* window.outer_position().ok()) after the loop; geometry is what the window
\* answers
LoopSaveWindowSize(geometry) ==
    /\ pc = "exit"
    /\ after_loop = "loop"
    /\ os_window' = Some(geometry)
    /\ save_window_size' =
           Append(save_window_size,
                  Geometry(geometry.maximized, geometry.inner_size,
                           geometry.outer_position))
    /\ after_loop' = "saved"

\* std::process::exit(RUNNING_TRACKER.exit_code())
LoopProcessExit ==
    /\ pc = "exit"
    /\ after_loop = "saved"
    /\ after_loop' = "exited"
    /\ UNCHANGED <<os_window, save_window_size>>

(***************************************************************************)
(* A ScrollbackBuffer under rounds of scroll, scroll_internal and refill   *)
(***************************************************************************)
NoHistory == [stage |-> "idle", view |-> <<>>, rows |-> 0, todo |-> {}]

HistInit == sb_hist = NoHistory

\* The caller draws a line into a row before the first scroll.
HistDraw(row, l) ==
    /\ sb_hist.stage = "idle"
    /\ SBAssign(row, l)
    /\ UNCHANGED sb_hist

\* scroll(rows), 0 < |rows| < H, the first of the rounds or one more in the
\* direction of the last
HistScroll(rows) ==
    /\ sb_hist.stage \in {"idle", "refilled"}
    /\ rows # 0 /\ Abs(rows) < SBHeight
    /\ sb_hist.stage = "refilled" => rows * sb_hist.rows > 0
    /\ SBScroll(rows)
    /\ sb_hist' = [stage |-> "scrolled",
                   view |-> IF sb_hist.stage = "idle"
                            THEN [i \in 1..SBHeight |-> get_visible_line(i - 1)]
                            ELSE sb_hist.view,
                   rows |-> rows,
                   todo |-> VacatedRows(SBHeight, rows)]

\* scroll_internal(0, H, rows) after the scroll
HistScrollInternal ==
    /\ sb_hist.stage = "scrolled"
    /\ SBScrollInternal(0, SBHeight, sb_hist.rows)
    /\ sb_hist' = [sb_hist EXCEPT !.stage = "shifted"]

\* The caller draws a line into one of the vacated rows.
HistRefill(row, l) ==
    /\ sb_hist.stage = "shifted"
    /\ row \in sb_hist.todo
    /\ SBAssign(row, l)
    /\ sb_hist' = [sb_hist EXCEPT !.todo = @ \ {row},
                                  !.stage = IF sb_hist.todo = {row}
                                            THEN "refilled" ELSE "shifted"]

(***************************************************************************)
(* VSync: the thread that counts vsyncs and the render thread's wait       *)
(***************************************************************************)
\* VSync::new: the thread is spawned, nothing counted yet
VSNew(kind) ==
    [kind |-> kind, should_exit |-> FALSE, count |-> 0, avg |-> FALSE,
     mutex |-> "free", signaled |-> FALSE, callbacks |-> 0,
     last_vsync |-> 0, dt |-> FALSE, interval |-> IF kind = "fixed" THEN 2 ELSE 1,
     thread |-> "test", render |-> "idle", phase |-> 0]

VSInit == vsync \in {VSNew(kind) : kind \in {"win", "fixed", "wayland"}}

VSIdle == vsync = VSNew("win")

\* lock.lock(): the caller gets the mutex when nobody holds it
CanLock(v) == v.mutex = "free"

\* a predicate that lets the call return on any count
WaitPredicateAnyCount(count, last, ticks) == count < last

\* the predicate of wait_while: keep waiting
WaitPredicate(count, last, ticks) == count < last + ticks

\* a thread that signals nobody
NotifyNobody(render) == render

\* cvar.notify_one(): a render thread waiting on the condition wakes up
NotifyOne(render) == IF render = "waiting" THEN "woken" ELSE render

\* while !should_exit.load(): the vsync thread tests the flag
ThreadTest ==
    /\ vsync.thread = "test"
    /\ vsync' = [vsync EXCEPT !.thread =
                     IF vsync.should_exit THEN "exited"
                     ELSE IF vsync.kind = "wayland" THEN "dispatch" ELSE "flush"]

\* DwmFlush() returns at the next composition
ThreadFlushReturns ==
    /\ vsync.thread = "flush"
    /\ vsync.count < VSMaxCount \/ vsync.should_exit
    /\ vsync' = [vsync EXCEPT !.thread = "lock"]

\* lock.lock() of the vsync thread
ThreadLock ==
    /\ vsync.thread = "lock"
    /\ CanLock(vsync)
    /\ vsync' = [vsync EXCEPT !.mutex = "thread", !.thread = "held"]

\* count += 1, the average stored, notify_one
ThreadTick ==
    /\ vsync.thread = "held"
    /\ vsync' = [vsync EXCEPT !.count = @ + 1, !.avg = TRUE,
                              !.render = NotifyOne(@), !.thread = "unlock"]

\* the guard of the vsync thread is dropped
ThreadUnlock ==
    /\ vsync.thread = "unlock"
    /\ vsync' = [vsync EXCEPT !.mutex = "free", !.thread = "test"]

\* blocking_dispatch returns after Dispatch::event: a frame callback is
\* delivered, vsync_signaled set and the condition notified
ThreadDispatch ==
    /\ vsync.thread = "dispatch"
    /\ vsync.callbacks > 0
    /\ vsync' = [vsync EXCEPT !.callbacks = @ - 1, !.signaled = TRUE,
                              !.thread = "test"]

\* the render thread calls wait_for_vsync of vsync_win or vsync
RenderCall ==
    /\ vsync.render = "idle"
    /\ vsync.kind # "wayland"
    /\ vsync' = [vsync EXCEPT !.render = "lock"]

\* lock.lock() of the render thread, at the call or after a wake-up
RenderLock ==
    /\ vsync.render \in {"lock", "woken"}
    /\ CanLock(vsync)
    /\ vsync' = [vsync EXCEPT !.mutex = "render", !.render = "check"]

\* wait_while evaluates its predicate with the mutex held: the call waits,
\* giving the mutex up, or returns with last_vsync and dt recorded
RenderCheck ==
    /\ vsync.render = "check"
    /\ IF WaitPredicate(vsync.count, vsync.last_vsync, vsync.interval)
       THEN vsync' = [vsync EXCEPT !.mutex = "free",
                                   !.render = "waiting"]
       ELSE vsync' = [vsync EXCEPT !.mutex = "free",
                                   !.render = "idle",
                                   !.last_vsync = vsync.count,
                                   !.dt = vsync.avg]

\* a condition variable may wake its waiter without a notification
RenderSpuriousWake ==
    /\ vsync.render = "waiting"
    /\ vsync' = [vsync EXCEPT !.render = "woken"]

\* set_refresh_rate between two waits: vsync_win follows the measured rate
VSSetRefreshRate(new_interval) ==
    /\ vsync.render = "idle"
    /\ vsync.kind = "win"
    /\ vsync' = [vsync EXCEPT !.interval = IF vsync.dt THEN new_interval ELSE 1]

\* wait_for_vsync of vsync_wayland: the flag reset and a frame callback
\* requested, before each of its two waits
RenderRequestFrame ==
    /\ vsync.kind = "wayland"
    /\ vsync.render \in {"idle", "wl_next"}
    /\ vsync.callbacks < VSMaxCallbacks
    /\ vsync' = [vsync EXCEPT !.signaled = FALSE, !.callbacks = @ + 1,
                              !.phase = @ + 1, !.render = "wl_wait"]

\* wait_timeout_while returns: signaled, or after 100 ms
RenderWaylandWake ==
    /\ vsync.render = "wl_wait"
    /\ vsync' = [vsync EXCEPT !.render = IF vsync.phase = 2 THEN "idle" ELSE "wl_next",
                              !.phase = IF vsync.phase = 2 THEN 0 ELSE @]

\* Drop: should_exit.store(true), then the join is entered
RenderDrop ==
    /\ vsync.render = "idle"
    /\ vsync' = [vsync EXCEPT !.should_exit = TRUE, !.render = "joining"]

\* join() returns once the vsync thread has left its loop
RenderJoin ==
    /\ vsync.render = "joining"
    /\ vsync.thread = "exited"
    /\ vsync' = [vsync EXCEPT !.render = "dropped"]

(***************************************************************************)
(* WinitWindowWrapper: window commands and the start-up state of the UI    *)
(***************************************************************************)
NoCall == [name |-> "new", commands |-> <<>>, resize_requested |-> FALSE,
           result |-> FALSE]

\* WinitWindowWrapper::new
UIInit ==
    /\ ui_state = "Initing"
    /\ requested_columns = Nothing
    /\ requested_lines = Nothing
    /\ set_visible = FALSE
    /\ ui_op = NoCall

\* the fields one window command leaves, w being [ui_state, columns, lines]
AfterCommand(w, command) ==
    IF command.name = "Columns" THEN [w EXCEPT !.columns = Some(command.value)]
    ELSE IF command.name = "Lines" THEN [w EXCEPT !.lines = Some(command.value)]
    ELSE IF command.name = "UIEnter" THEN [w EXCEPT !.ui_state = "Entered"]
    ELSE IF command.name = "UIReady" THEN [w EXCEPT !.ui_state = "ShouldShow"]
    ELSE w

\* while let Ok(window_command) = try_recv(): the commands in their order
RECURSIVE AfterCommands(_, _)
AfterCommands(w, commands) ==
    IF commands = <<>> THEN w
    ELSE AfterCommands(AfterCommand(w, Head(commands)), Tail(commands))

\* handle_window_commands with the commands the channel holds
UIHandleWindowCommands(commands) ==
    LET w == AfterCommands([ui_state |-> ui_state, columns |-> requested_columns,
                            lines |-> requested_lines], commands)
    IN  /\ ui_state' = w.ui_state
        /\ requested_columns' = w.columns
        /\ requested_lines' = w.lines
        /\ ui_op' = [name |-> "handle_window_commands", commands |-> commands,
                     resize_requested |-> FALSE, result |-> FALSE]
        /\ UNCHANGED set_visible

\* a window shown as soon as the UI is ready, a resize pending or not
ShowsNowWhenReady(state, resize_requested) == state = "ShouldShow"

\* prepare_frame: the UI is to be shown in this call
ShowsNow(state, resize_requested) == state = "ShouldShow" /\ ~resize_requested

\* prepare_frame; changed: the size of the window, the font or the padding
\* changed; any_handled: handle_draw_commands handled a draw command
UIPrepareFrame(changed, any_handled) ==
    LET resize_requested == requested_columns # Nothing \/ requested_lines # Nothing
        shows == ShowsNow(ui_state, resize_requested)
        render == shows \/ (~resize_requested /\ changed) \/ any_handled
    IN  /\ ui_state' = IF shows THEN "Ready" ELSE ui_state
        /\ set_visible' = (set_visible \/ shows)
        /\ requested_columns' = IF resize_requested THEN Nothing ELSE requested_columns
        /\ requested_lines' = IF resize_requested THEN Nothing ELSE requested_lines
        /\ ui_op' = [name |-> "prepare_frame", commands |-> <<>>,
                     resize_requested |-> resize_requested,
                     result |-> IF ui_state' # "Ready" THEN FALSE ELSE render]

(***************************************************************************)
(* The render loop with the refresh rate it reads                          *)
(***************************************************************************)
PaceInit == pace = [setting |-> "none", hz |-> 0, blocked |-> FALSE, since |-> -1]

\* the idle rate as soon as the focus is lost
RefreshRateSettingIdleAtOnce(state) ==
    IF state = "Focused" THEN "refresh_rate" ELSE "refresh_rate_idle"

\* match focused: the setting the refresh rate is read from
RefreshRateSetting(state) ==
    IF state = "Unfocused" THEN "refresh_rate_idle" ELSE "refresh_rate"

\* refresh_rate: the setting as f32, raised to 1.0
RefreshRate(refresh_rate, refresh_rate_idle) ==
    Max(IF RefreshRateSetting(focused) = "refresh_rate_idle"
        THEN refresh_rate_idle ELSE refresh_rate, 1)

\* the top of the loop: the refresh rate of the iteration and the wait for events
PacedRecv(refresh_rate, refresh_rate_idle, elapsed) ==
    /\ LoopRecv(RefreshRate(refresh_rate, refresh_rate_idle), elapsed)
    /\ pace' = [setting |-> RefreshRateSetting(focused),
                hz |-> RefreshRate(refresh_rate, refresh_rate_idle),
                blocked |-> num_consecutive_rendered = 0,
                since |-> pace.since]

\* the wait is over: only the frame iterations since the focus was lost stay
PaceAfterWait(since) ==
    pace' = [setting |-> "none", hz |-> 0, blocked |-> FALSE, since |-> since]

(***************************************************************************)
(* Specifications                                                          *)
(***************************************************************************)
Origin == Pos(0, 0)
Heights == {[width |-> 1, height |-> h] : h \in 1..RWMaxHeight}
Widths == {[width |-> w, height |-> 1] : w \in 1..RWMaxWidth}
Coords == {Pos(x, 0) : x \in 0..RWMaxCoord}
ScrollPositions == [n : (-RWMaxScroll)..RWMaxScroll, f : BOOLEAN]
WholePositions == {Whole(n) : n \in (-RWMaxScroll)..RWMaxScroll}
\* the root grid at its place in the window, its left edge at 0 or 1
GridRects ==
    {[min |-> Pos(x, 0), max |-> Pos(x + RWGridWidth, RWMaxHeight)] : x \in 0..1}
RootRect == [min |-> Origin, max |-> Pos(RWGridWidth, RWMaxHeight)]
\* the scroll_delta arguments of a Viewport command, in halves of a row
ViewportHalves == (-2 * RWMaxDelta)..(2 * RWMaxDelta)
\* the regions of a Scroll command: whole grids and parts of them
ScrollRegions ==
    [top : 0..1, bottom : 1..RWMaxHeight, left : {0}, right : 1..2]
        \cup [top : {0}, bottom : 1..RWMaxHeight, left : {1}, right : {1}]

\* The lines of a window: the draw commands that change them, flush, and the
\* frame steps prepare_lines and animate (to whole scroll positions).
Next ==
    \/ \E size \in Heights : RWPosition(Origin, size, FALSE, "Editor") /\ UNCHANGED <<sb_vars, loop_vars, ext_vars>>
    \/ \E row \in 0..(RWMaxHeight - 1), border \in BOOLEAN : RWDrawLine(row, border) /\ UNCHANGED <<sb_vars, loop_vars, ext_vars>>
    \/ \E bottom \in 1..RWMaxHeight, rows \in {-1, 1}, cols \in {0, 1} :
           RWScroll(0, bottom, 0, 1, rows, cols) /\ UNCHANGED <<sb_vars, loop_vars, ext_vars>>
    \/ RWClear /\ UNCHANGED <<sb_vars, loop_vars, ext_vars>>
    \/ \E delta \in {-1, 0, 1} : RWViewport(delta) /\ UNCHANGED <<sb_vars, loop_vars, ext_vars>>
    \/ RWFlush(1) /\ UNCHANGED <<sb_vars, loop_vars, ext_vars>>
    \/ RWPrepareLines /\ UNCHANGED <<sb_vars, loop_vars, ext_vars>>
    \/ \E q \in WholePositions : RWAnimate(RootRect, q) /\ UNCHANGED <<sb_vars, loop_vars, ext_vars>>

\* The scroll position of a window: resizes, scrolls of the whole grid, margins,
\* viewport deltas of every size and the far_lines settings.
ScrollNext ==
    \/ \E size \in Heights : RWPosition(Origin, size, FALSE, "Editor") /\ UNCHANGED <<sb_vars, loop_vars, ext_vars>>
    \/ \E row \in 0..(RWMaxHeight - 1) : RWDrawLine(row, TRUE) /\ UNCHANGED <<sb_vars, loop_vars, ext_vars>>
    \/ \E rows \in {-1, 1} :
           RWScroll(0, grid_size.height, 0, 1, rows, 0) /\ UNCHANGED <<sb_vars, loop_vars, ext_vars>>
    \/ RWClear /\ UNCHANGED <<sb_vars, loop_vars, ext_vars>>
    \/ \E halves \in ViewportHalves : RWViewport(Round(halves)) /\ UNCHANGED <<sb_vars, loop_vars, ext_vars>>
    \/ \E top \in 0..RWMaxMargin, bottom \in 0..RWMaxMargin :
           RWViewportMargins(top, bottom) /\ UNCHANGED <<sb_vars, loop_vars, ext_vars>>
    \/ \E far_setting \in 0..RWMaxFar : RWFlush(far_setting) /\ UNCHANGED <<sb_vars, loop_vars, ext_vars>>
    \/ \E q \in ScrollPositions : RWAnimate(RootRect, q) /\ UNCHANGED <<sb_vars, loop_vars, ext_vars>>

\* Every command of a window, flush and the frame steps, with scrolls of one
\* row downwards and animations that run to their end.
LinesNext ==
    \/ \E size \in Heights : RWPosition(Origin, size, FALSE, "Editor") /\ UNCHANGED <<sb_vars, loop_vars, ext_vars>>
    \/ \E row \in 0..(RWMaxHeight - 1) : RWDrawLine(row, FALSE) /\ UNCHANGED <<sb_vars, loop_vars, ext_vars>>
    \/ \E rows \in {-1, 1} :
           RWScroll(0, grid_size.height, 0, 1, rows, 0) /\ UNCHANGED <<sb_vars, loop_vars, ext_vars>>
    \/ RWClear /\ UNCHANGED <<sb_vars, loop_vars, ext_vars>>
    \/ RWShow /\ UNCHANGED <<sb_vars, loop_vars, ext_vars>>
    \/ RWHide /\ UNCHANGED <<sb_vars, loop_vars, ext_vars>>
    \/ \E delta \in 0..1 : RWViewport(delta) /\ UNCHANGED <<sb_vars, loop_vars, ext_vars>>
    \/ RWViewportMargins(1, 0) /\ UNCHANGED <<sb_vars, loop_vars, ext_vars>>
    \/ RWFlush(1) /\ UNCHANGED <<sb_vars, loop_vars, ext_vars>>
    \/ RWPrepareLines /\ UNCHANGED <<sb_vars, loop_vars, ext_vars>>
    \/ RWAnimate(RootRect, ScrollZero) /\ UNCHANGED <<sb_vars, loop_vars, ext_vars>>

\* The rows of a window under Scroll commands of every region, between resizes,
\* redraws, viewport deltas and flushes.
RegionNext ==
    \/ \E size \in Heights : RWPosition(Origin, size, FALSE, "Editor") /\ UNCHANGED <<sb_vars, loop_vars, ext_vars>>
    \/ \E row \in 0..(RWMaxHeight - 1) : RWDrawLine(row, FALSE) /\ UNCHANGED <<sb_vars, loop_vars, ext_vars>>
    \/ \E region \in ScrollRegions, rows \in {-1, 1}, cols \in {0, 1} :
           /\ RWScroll(region.top, region.bottom, region.left, region.right,
                       rows, cols)
           /\ UNCHANGED <<sb_vars, loop_vars, ext_vars>>
    \/ RWClear /\ UNCHANGED <<sb_vars, loop_vars, ext_vars>>
    \/ \E delta \in {-1, 0, 1} : RWViewport(delta) /\ UNCHANGED <<sb_vars, loop_vars, ext_vars>>
    \/ RWFlush(1) /\ UNCHANGED <<sb_vars, loop_vars, ext_vars>>

\* The margins of a window: lines with and without border highlights, explicit
\* margins, flush and the commands that leave the margins alone.
MarginsNext ==
    \/ \E size \in Heights : RWPosition(Origin, size, FALSE, "Editor") /\ UNCHANGED <<sb_vars, loop_vars, ext_vars>>
    \/ \E row \in 0..(RWMaxHeight - 1), border \in BOOLEAN :
           RWDrawLine(row, border) /\ UNCHANGED <<sb_vars, loop_vars, ext_vars>>
    \/ RWClear /\ UNCHANGED <<sb_vars, loop_vars, ext_vars>>
    \/ RWShow /\ UNCHANGED <<sb_vars, loop_vars, ext_vars>>
    \/ RWHide /\ UNCHANGED <<sb_vars, loop_vars, ext_vars>>
    \/ \E top \in 0..RWMaxMargin, bottom \in 0..RWMaxMargin :
           RWViewportMargins(top, bottom) /\ UNCHANGED <<sb_vars, loop_vars, ext_vars>>
    \/ RWFlush(1) /\ UNCHANGED <<sb_vars, loop_vars, ext_vars>>

\* The place of a window of one row: Position commands of every destination,
\* width, anchor and type, Show, Hide and the animation towards the target.
PosNext ==
    \/ \E p \in Coords, size \in Widths, anchor \in BOOLEAN,
          type \in {"Editor", "Message"} : RWPosition(p, size, anchor, type) /\ UNCHANGED <<sb_vars, loop_vars, ext_vars>>
    \/ RWShow /\ UNCHANGED <<sb_vars, loop_vars, ext_vars>>
    \/ RWHide /\ UNCHANGED <<sb_vars, loop_vars, ext_vars>>
    \/ \E rect \in GridRects : RWAnimate(rect, ScrollZero) /\ UNCHANGED <<sb_vars, loop_vars, ext_vars>>

\* The steps of the render thread.
RenderThread ==
    \/ \E refresh_rate \in RefreshRates, elapsed \in Elapsed :
           LoopRecv(refresh_rate, elapsed) /\ UNCHANGED <<sb_vars, rw_vars, ext_vars>>
    \/ LoopExit /\ UNCHANGED <<sb_vars, rw_vars, ext_vars>>
    \/ \E handled \in BOOLEAN : LoopHandleEvent(handled) /\ UNCHANGED <<sb_vars, rw_vars, ext_vars>>
    \/ \E result \in BOOLEAN, new_interval \in 1..LoopMaxInterval :
           LoopPrepareFrame(result, new_interval) /\ UNCHANGED <<sb_vars, rw_vars, ext_vars>>
    \/ \E result \in BOOLEAN : LoopAnimateFrame(result) /\ UNCHANGED <<sb_vars, rw_vars, ext_vars>>
    \/ LoopDrawFrame /\ UNCHANGED <<sb_vars, rw_vars, ext_vars>>
    \/ LoopSkipFrame /\ UNCHANGED <<sb_vars, rw_vars, ext_vars>>
    \/ DrawFrameStep /\ UNCHANGED <<sb_vars, rw_vars, ext_vars>>
    \/ WaitForVSyncWin /\ UNCHANGED <<sb_vars, rw_vars, ext_vars>>
    \/ WaitForVSyncWayland /\ UNCHANGED <<sb_vars, rw_vars, ext_vars>>
    \/ LoopFrameDrawn /\ UNCHANGED <<sb_vars, rw_vars, ext_vars>>
    \/ LoopEndFrame /\ UNCHANGED <<sb_vars, rw_vars, ext_vars>>

\* The threads around the render thread: the event loop, the bridge and the
\* source of vsync signals.
LoopEnvironment ==
    \/ \E event \in Events : SendEvent(event) /\ UNCHANGED <<sb_vars, rw_vars, ext_vars>>
    \/ CloseChannel /\ UNCHANGED <<sb_vars, rw_vars, ext_vars>>
    \/ SendDrawCommands /\ UNCHANGED <<sb_vars, rw_vars, ext_vars>>
    \/ VSyncSignal /\ UNCHANGED <<sb_vars, rw_vars, ext_vars>>
    \/ VSyncStops /\ UNCHANGED <<sb_vars, rw_vars, ext_vars>>

LoopNext == RenderThread \/ LoopEnvironment

\* the pixel rectangles of the windows of a frame, those without interior
\* included
FrameBoxes ==
    {b \in [min : [x : 0..FrameMaxX, y : 0..FrameMaxY],
            max : [x : 0..FrameMaxX, y : 0..FrameMaxY]] :
        b.min.x <= b.max.x /\ b.min.y <= b.max.y}

\* The frames of the renderer: the windows are drawn one after the other.
FrameNext ==
    \/ \E setting \in BOOLEAN :
           /\ frame_drawn # <<>>
           /\ FrameBegin(setting)
           /\ UNCHANGED <<sb_vars, rw_vars, loop_vars, size_vars, spring_vars, grid_all, exit_vars, hist_vars, vs_vars, ui_vars, pace_vars>>
    \/ \E floating \in BOOLEAN, pixel_region_box \in FrameBoxes :
           /\ RWDraw(floating, pixel_region_box)
           /\ UNCHANGED <<sb_vars, rw_vars, loop_vars, size_vars, spring_vars, grid_all, exit_vars, hist_vars, vs_vars, ui_vars, pace_vars>>

\* what the window of the operating system can answer
OsWindows ==
    {Geometry(maximized, size, position) :
        maximized \in BOOLEAN,
        size \in {Size(MIN_WINDOW_WIDTH, MIN_WINDOW_HEIGHT),
                  Size(SizeMaxWidth, SizeMaxHeight)},
        position \in {Nothing, Some(Pos(0, 0))}}

\* The render thread to its end, beside the threads around it.
ShutdownNext ==
    \/ LoopNext
    \/ \E geometry \in OsWindows :
           /\ LoopSaveWindowSize(geometry)
           /\ UNCHANGED <<sb_vars, rw_vars, loop_vars, size_vars, spring_vars, grid_all, frame_vars, hist_vars, vs_vars, ui_vars, pace_vars>>
    \/ LoopProcessExit /\ UNCHANGED <<sb_vars, rw_vars, loop_vars, size_vars, spring_vars, grid_all, frame_vars, hist_vars, vs_vars, ui_vars, pace_vars>>

\* Rounds of scroll, scroll_internal and refill in one direction, the
\* scroll_position left where it was.
HistNext ==
    \/ \E row \in 0..(SBHistMaxHeight - 1), l \in SBLines :
           HistDraw(row, l) /\ UNCHANGED <<rw_vars, loop_vars, base_ext, vs_vars, ui_vars, pace_vars>>
    \/ \E rows \in (-SBHistMaxHeight)..SBHistMaxHeight :
           HistScroll(rows) /\ UNCHANGED <<rw_vars, loop_vars, base_ext, vs_vars, ui_vars, pace_vars>>
    \/ HistScrollInternal /\ UNCHANGED <<rw_vars, loop_vars, base_ext, vs_vars, ui_vars, pace_vars>>
    \/ \E row \in 0..(SBHistMaxHeight - 1), l \in SBLines :
           HistRefill(row, l) /\ UNCHANGED <<rw_vars, loop_vars, base_ext, vs_vars, ui_vars, pace_vars>>

\* The vsync thread and the render thread, interleaved.
VSNext ==
    \/ ThreadTest /\ UNCHANGED vs_rest
    \/ ThreadFlushReturns /\ UNCHANGED vs_rest
    \/ ThreadLock /\ UNCHANGED vs_rest
    \/ ThreadTick /\ UNCHANGED vs_rest
    \/ ThreadUnlock /\ UNCHANGED vs_rest
    \/ ThreadDispatch /\ UNCHANGED vs_rest
    \/ RenderCall /\ UNCHANGED vs_rest
    \/ RenderLock /\ UNCHANGED vs_rest
    \/ RenderCheck /\ UNCHANGED vs_rest
    \/ RenderSpuriousWake /\ UNCHANGED vs_rest
    \/ \E new_interval \in 1..VSMaxInterval :
           VSSetRefreshRate(new_interval) /\ UNCHANGED vs_rest
    \/ RenderRequestFrame /\ UNCHANGED vs_rest
    \/ RenderWaylandWake /\ UNCHANGED vs_rest
    \/ RenderDrop /\ UNCHANGED vs_rest
    \/ RenderJoin /\ UNCHANGED vs_rest

\* the window commands of the model
WindowCommands ==
    [name : {"TitleChanged", "UIEnter", "UIReady"}, value : {0}]
        \cup [name : {"Columns", "Lines"}, value : 1..UIMaxRequest]

RECURSIVE CommandBatches(_)
CommandBatches(n) ==
    IF n = 0 THEN {<<>>}
    ELSE CommandBatches(n - 1)
             \cup {Append(b, c) : b \in CommandBatches(n - 1), c \in WindowCommands}

\* The calls the render loop makes on the window wrapper.
UINext ==
    \/ \E commands \in CommandBatches(UIMaxCommands) :
           UIHandleWindowCommands(commands) /\ UNCHANGED ui_rest
    \/ \E changed \in BOOLEAN, any_handled \in BOOLEAN :
           UIPrepareFrame(changed, any_handled) /\ UNCHANGED ui_rest

\* The render loop and the threads around it, the refresh rate read from the
\* settings at the top of each iteration.
PacingNext ==
    \/ \E refresh_rate \in RefreshRates, refresh_rate_idle \in RefreshRates,
          elapsed \in Elapsed :
           PacedRecv(refresh_rate, refresh_rate_idle, elapsed) /\ UNCHANGED pace_rest
    \/ LoopExit /\ PaceAfterWait(pace.since) /\ UNCHANGED pace_rest
    \/ \E handled \in BOOLEAN :
           /\ LoopHandleEvent(handled)
           /\ PaceAfterWait(IF e = "FocusLost" THEN 0
                            ELSE IF e = "FocusGained" THEN -1 ELSE pace.since)
           /\ UNCHANGED pace_rest
    \/ \E result \in BOOLEAN, new_interval \in 1..LoopMaxInterval :
           /\ LoopPrepareFrame(result, new_interval)
           /\ PaceAfterWait(pace.since)
           /\ UNCHANGED pace_rest
    \/ \E result \in BOOLEAN : LoopAnimateFrame(result) /\ UNCHANGED <<pace_vars, pace_rest>>
    \/ LoopDrawFrame /\ UNCHANGED <<pace_vars, pace_rest>>
    \/ LoopSkipFrame /\ UNCHANGED <<pace_vars, pace_rest>>
    \/ DrawFrameStep /\ UNCHANGED <<pace_vars, pace_rest>>
    \/ WaitForVSyncWin /\ UNCHANGED <<pace_vars, pace_rest>>
    \/ WaitForVSyncWayland /\ UNCHANGED <<pace_vars, pace_rest>>
    \/ LoopFrameDrawn /\ UNCHANGED <<pace_vars, pace_rest>>
    \/ LoopEndFrame /\ PaceAfterWait(IF pace.since = 0 THEN 1 ELSE pace.since)
           /\ UNCHANGED pace_rest
    \/ \E event \in Events : SendEvent(event) /\ UNCHANGED <<pace_vars, pace_rest>>
    \/ CloseChannel /\ UNCHANGED <<pace_vars, pace_rest>>
    \/ SendDrawCommands /\ UNCHANGED <<pace_vars, pace_rest>>
    \/ VSyncSignal /\ UNCHANGED <<pace_vars, pace_rest>>
    \/ VSyncStops /\ UNCHANGED <<pace_vars, pace_rest>>

\* The scrollback buffer under its callers' calls.
SBNext ==
    \/ \E rows \in (-SBMaxHeight)..SBMaxHeight : SBScroll(rows) /\ UNCHANGED <<rw_vars, loop_vars, ext_vars>>
    \/ \E top \in 0..SBMaxHeight, bottom \in 0..SBMaxHeight,
          rows \in ((-SBMaxHeight)..SBMaxHeight) \ {0} :
           SBScrollInternal(top, bottom, rows) /\ UNCHANGED <<rw_vars, loop_vars, ext_vars>>
    \/ \E row \in 0..(SBMaxHeight - 1), l \in SBLines : SBAssign(row, l) /\ UNCHANGED <<rw_vars, loop_vars, ext_vars>>
    \/ \E n \in (-SBMaxPos)..SBMaxPos, f \in BOOLEAN : SBSetScrollPosition(n, f) /\ UNCHANGED <<rw_vars, loop_vars, ext_vars>>
    \/ SBResetScroll /\ UNCHANGED <<rw_vars, loop_vars, ext_vars>>
    \/ SBClear /\ UNCHANGED <<rw_vars, loop_vars, ext_vars>>
    \/ \E size \in 1..SBMaxHeight : SBResize(size) /\ UNCHANGED <<rw_vars, loop_vars, ext_vars>>

\* scroll_internal calls on a buffer of any size up to SBInternalMaxHeight
SBInternalNext ==
    \E top \in 0..SBInternalMaxHeight, bottom \in 0..SBInternalMaxHeight,
       rows \in (-SBInternalMaxHeight)..SBInternalMaxHeight :
        SBScrollInternal(top, bottom, rows) /\ UNCHANGED <<rw_vars, loop_vars, ext_vars>>

\* the sizes of the window: below, at and above the minimum grid
WindowSizes ==
    {Size(w, h) : w \in {0, MIN_WINDOW_WIDTH - 1, SizeMaxWidth},
                  h \in {MIN_WINDOW_HEIGHT - 1, SizeMaxHeight}}
Paddings ==
    {Padding(0, 0, 0, 0), Padding(1, 0, 1, 0), Padding(SizeMaxPadding, 0, 0, 0)}
FontSizes == {Size(w, h) : w \in 1..SizeMaxFont, h \in 1..SizeMaxFont}
Option(S) == {Nothing} \cup {Some(x) : x \in S}

\* the regions of a scroll_region call: the rows top..bottom-1 and the columns
\* left..right-1 of the grid, at least one of each
GridRegions ==
    {r \in [top : 0..CGMaxHeight, bottom : 1..CGMaxHeight,
            left : 0..CGMaxWidth, right : 1..CGMaxWidth] :
        /\ r.top < r.bottom /\ r.bottom <= cg_height
        /\ r.left < r.right /\ r.right <= cg_width}
\* scroll_offset in halves of a row
GridOffsets == (-2 * CGMaxHeight)..(2 * CGMaxHeight)

\* The grid of a window under the editor's commands and the scroll animation.
GridNext ==
    \/ \E w \in 1..CGMaxWidth, h \in 1..CGMaxHeight :
           CGResize(w, h) /\ UNCHANGED <<sb_vars, rw_vars, loop_vars, late_vars, size_vars, spring_vars, cg_calls>>
    \/ CGClear /\ UNCHANGED <<sb_vars, rw_vars, loop_vars, late_vars, size_vars, spring_vars, cg_calls>>
    \/ \E x \in 0..(CGMaxWidth - 1), y \in 0..(CGMaxHeight - 1), value \in GridCells :
           CGSetCell(x, y, value) /\ UNCHANGED <<sb_vars, rw_vars, loop_vars, late_vars, size_vars, spring_vars, cg_calls>>
    \/ \E offset \in GridOffsets :
           CGSetScrollOffset(offset) /\ UNCHANGED <<sb_vars, rw_vars, loop_vars, late_vars, size_vars, spring_vars, cg_calls>>
    \/ \E region \in GridRegions, rows \in (-CGMaxRows)..CGMaxRows, cols \in {-1, 0, 1} :
           /\ CGScrollRegion(region.top, region.bottom, region.left, region.right,
                             rows, cols)
           /\ UNCHANGED <<sb_vars, rw_vars, loop_vars, late_vars, size_vars, spring_vars, cg_calls>>

\* The grid under a few scroll_region calls of every region and distance.
GridScrollNext ==
    \E region \in GridRegions, rows \in (-CGMaxRows)..CGMaxRows, cols \in {-1, 0, 1} :
        /\ cg_calls < CGMaxCalls
        /\ cg_calls' = cg_calls + 1
        /\ CGScrollRegion(region.top, region.bottom, region.left, region.right,
                          rows, cols)
        /\ UNCHANGED <<sb_vars, rw_vars, loop_vars, late_vars, size_vars, spring_vars>>

\* animate is called frame after frame, without commands between the calls.
SpringNext ==
    SpringAnimate /\ UNCHANGED <<sb_vars, rw_vars, loop_vars, late_vars, size_vars, grid_all>>

\* The size of the window, the padding and the font change between frames.
SizeNext ==
    \/ \E new_font \in Option(FontSizes), init_size \in Option(WindowSizes) :
           PrepareFrameMod(new_font, init_size) /\ UNCHANGED <<sb_vars, rw_vars, loop_vars, late_vars, spring_vars, grid_all>>
    \/ \E new_font \in Option(FontSizes), requested \in Option(WindowSizes) :
           PrepareFrameWrapper(new_font, requested) /\ UNCHANGED <<sb_vars, rw_vars, loop_vars, late_vars, spring_vars, grid_all>>
    \/ \E size \in WindowSizes : WindowResized(size) /\ UNCHANGED <<sb_vars, rw_vars, loop_vars, late_vars, spring_vars, grid_all>>
    \/ \E padding \in Paddings : PaddingSet(padding) /\ UNCHANGED <<sb_vars, rw_vars, loop_vars, late_vars, spring_vars, grid_all>>

\* A render loop nobody runs.
LoopIdle == LoopInit /\ ~no_idle /\ vsync_kind = "Windows"

\* A window of the operating system nobody resizes.
SizeIdle ==
    /\ SizeInit
    /\ snapshot = "mod"
    /\ window_inner_size = Size(MIN_WINDOW_WIDTH, MIN_WINDOW_HEIGHT)

\* A scroll animation at rest that nobody steps.
SpringIdle ==
    /\ SpringInit
    /\ spring = SpringRest
    /\ spring_dt = SpringSubStep
    /\ spring_t = PositionDone
    /\ ~spring_distance

\* A grid of one cell nobody uses.
GridIdle == CGInit /\ cg_width = 1 /\ cg_height = 1 /\ cg_calls = 0

\* A frame in which nothing is drawn, and a render thread that is not left.
LateIdle == FrameInit /\ floating_shadow /\ ExitInit /\ HistInit /\ VSIdle /\ UIInit /\ PaceInit

\* The parts added after the render loop, unused.
ExtIdle == SizeIdle /\ SpringIdle /\ GridIdle /\ LateIdle

\* A window, a scrollback buffer and a render loop nobody uses.
CoreIdle == SBInit /\ SBHeight = 1 /\ RWInit /\ grid_size.height = 1 /\ LoopIdle

\* A window beside a scrollback buffer and a render loop nobody uses.
Init == SBInit /\ SBHeight = 1 /\ RWInit /\ LoopIdle /\ ExtIdle

\* A render loop beside a window and a scrollback buffer nobody uses.
LoopOnlyInit ==
    SBInit /\ SBHeight = 1 /\ RWInit /\ grid_size.height = 1 /\ LoopInit /\ ExtIdle

\* A window of one row.
PosInit == Init /\ grid_size.height = 1

\* A scrollback buffer beside a window nobody uses.
SBOnlyInit == SBInit /\ RWInit /\ grid_size.height = 1 /\ LoopIdle /\ ExtIdle

\* a buffer whose row i holds the line i or no line
SBDrawnInit ==
    /\ sb_actual_lines \in
           {[i \in 1..h |-> IF i \in drawn THEN i ELSE None] :
                h \in 1..SBInternalMaxHeight,
                drawn \in SUBSET (1..SBInternalMaxHeight)}
    /\ sb_scrollback_lines = <<>>
    /\ sb_actual_position = 0
    /\ sb_scroll_position = Whole(0)
    /\ sb_track = NoTrack
SBInternalOnlyInit ==
    SBDrawnInit /\ RWInit /\ grid_size.height = 1 /\ LoopIdle /\ ExtIdle

\* The frames of the renderer beside parts nobody uses.
FrameOnlyInit ==
    CoreIdle /\ SizeIdle /\ SpringIdle /\ GridIdle /\ FrameInit /\ ExitInit /\ HistInit
        /\ VSIdle /\ UIInit /\ PaceInit

\* A new scrollback buffer of two rows or more.
HistOnlyInit ==
    /\ sb_actual_lines \in {[i \in 1..h |-> None] : h \in 2..SBHistMaxHeight}
    /\ sb_scrollback_lines = <<>>
    /\ sb_actual_position = 0
    /\ sb_scroll_position = Whole(0)
    /\ sb_track = NoTrack
    /\ RWInit /\ grid_size.height = 1 /\ LoopIdle /\ ExtIdle

\* The window of the operating system beside parts nobody uses.
SizeOnlyInit == CoreIdle /\ SizeInit /\ SpringIdle /\ GridIdle /\ LateIdle

\* A scroll animation beside parts nobody uses.
SpringOnlyInit == CoreIdle /\ SizeIdle /\ SpringInit /\ GridIdle /\ LateIdle

\* A grid of the largest size in which the editor has drawn cells that all
\* differ, the rows that scrolls of the whole grid have moved out included.
GridDrawnInit ==
    /\ CoreIdle /\ SizeIdle /\ SpringIdle /\ LateIdle
    /\ cg_width = CGMaxWidth
    /\ cg_height = CGMaxHeight
    /\ cg_scroll_offset = 0
    /\ cg_top_index = 0
    /\ cg_lines = [r \in 1..(2 * cg_height) |->
                      [c \in 1..cg_width |-> (r - 1) * cg_width + c]]
    /\ cg_hung = FALSE
    /\ cg_op = "new"
    /\ cg_calls = 0

\* A grid beside parts nobody uses.
GridOnlyInit ==
    CoreIdle /\ SizeIdle /\ SpringIdle /\ LateIdle /\ CGInit /\ cg_calls = 0

SpecFrame == FrameOnlyInit /\ [][FrameNext]_vars

SpecShutdown == LoopOnlyInit /\ [][ShutdownNext]_vars

Spec == Init /\ [][Next]_vars

SpecScroll == Init /\ [][ScrollNext]_vars

SpecLines == Init /\ [][LinesNext]_vars

SpecRegion == Init /\ [][RegionNext]_vars

SpecMargins == Init /\ [][MarginsNext]_vars

SpecPos == PosInit /\ [][PosNext]_vars

SpecSB == SBOnlyInit /\ [][SBNext]_vars

SpecSBHistory == HistOnlyInit /\ [][HistNext]_vars

\* A vsync object beside parts nobody uses.
VSOnlyInit ==
    CoreIdle /\ SizeIdle /\ SpringIdle /\ GridIdle /\ FrameInit /\ ExitInit
        /\ HistInit /\ VSInit /\ UIInit /\ PaceInit

SpecVSync == VSOnlyInit /\ [][VSNext]_vars

SpecPacing == LoopOnlyInit /\ [][PacingNext]_vars

\* A window wrapper beside parts nobody uses.
SpecUI == PosInit /\ [][UINext]_vars

\* Both threads are scheduled and the mutex is handed to whoever asks for it
\* again and again; the compositor keeps composing and delivers the frame
\* callbacks that were requested.
SpecVSyncTicking ==
    /\ VSOnlyInit
    /\ [][VSNext]_vars
    /\ WF_vars(ThreadTest /\ UNCHANGED vs_rest)
    /\ WF_vars(ThreadFlushReturns /\ UNCHANGED vs_rest)
    /\ SF_vars(ThreadLock /\ UNCHANGED vs_rest)
    /\ WF_vars(ThreadTick /\ UNCHANGED vs_rest)
    /\ WF_vars(ThreadUnlock /\ UNCHANGED vs_rest)
    /\ WF_vars(ThreadDispatch /\ UNCHANGED vs_rest)
    /\ SF_vars(RenderLock /\ UNCHANGED vs_rest)
    /\ WF_vars(RenderCheck /\ UNCHANGED vs_rest)
    /\ WF_vars(RenderRequestFrame /\ UNCHANGED vs_rest)
    /\ WF_vars(RenderWaylandWake /\ UNCHANGED vs_rest)
    /\ WF_vars(RenderJoin /\ UNCHANGED vs_rest)

SpecSBInternal == SBInternalOnlyInit /\ [][SBInternalNext]_vars

\* The render thread is a thread of its own that the system keeps running: a
\* step it can take is taken, and a timeout it waits on runs out.
SpecLoop == LoopOnlyInit /\ [][LoopNext]_vars /\ WF_vars(RenderThread)

SpecSize == SizeOnlyInit /\ [][SizeNext]_vars

SpecGrid == GridOnlyInit /\ [][GridNext]_vars

SpecGridScroll == GridDrawnInit /\ [][GridScrollNext]_vars

\* The frames follow each other: a call of animate that is due is made.
SpecSpring == SpringOnlyInit /\ [][SpringNext]_vars /\ WF_vars(SpringNext)

(***************************************************************************)
(* Claims about ScrollbackBuffer                                           *)
(***************************************************************************)

\* C1: after scroll(rows), scroll_internal(0, H, rows) and the refill of the
\* vacated rows of a fully populated buffer whose scroll_position was equal to
\* actual_position, get_visible_line(i), i in 0..H-1, is the pre-scroll content of
\* row i while scroll_position has its old value, and actual_lines[i] once
\* scroll_position is the new actual_position.
C1_ScrollKeepsView ==
    sb_track.stage = "refilled" =>
        /\ sb_scroll_position = Whole(sb_track.pos) =>
               \A i \in 0..(SBHeight - 1) : get_visible_line(i) = sb_track.pre[i + 1]
        /\ sb_scroll_position = Whole(sb_actual_position) =>
               \A i \in 0..(SBHeight - 1) : get_visible_line(i) = sb_actual_lines[i + 1]

\* rows looked up beyond the visible window (index > H)
SBOutsideIndices == (SBHeight + 1)..(SBHeight + 2 * SBMaxPos)

\* C9 (as stated): a lookup of a row outside
\* [floor(scroll_position), floor(scroll_position) + H] returns no content.
C9_OutsideIsNone ==
    \A index \in SBOutsideIndices : get_visible_line(index) = None

SBInActual(v) ==
    v >= sb_actual_position /\ v < sb_actual_position + SBHeight

\* A lookup returns the actual row of exactly that virtual line, or the line of
\* a scrollback entry keyed by exactly that virtual line, or None.
SBLookupExact ==
    \A index \in 0..(SBHeight + 2 * SBMaxPos) :
        LET v == sb_scroll_position.n + index
            r == get_visible_line(index)
        IN  IF SBInActual(v)
            THEN r = sb_actual_lines[v - sb_actual_position + 1]
            ELSE \/ r = None
                 \/ \E k \in 1..Len(sb_scrollback_lines) :
                        sb_scrollback_lines[k] = [pos |-> v, line |-> r]

\* Every entry of the scrollback after a step was there before it, or is the
\* line that was at that virtual row of actual_lines before the step.
SBEntriesFromRows ==
    \A k \in 1..Len(sb_scrollback_lines') :
        \/ \E j \in 1..Len(sb_scrollback_lines) :
               sb_scrollback_lines[j] = sb_scrollback_lines'[k]
        \/ \E i \in 1..SBHeight :
               /\ sb_actual_lines[i] # None
               /\ sb_scrollback_lines'[k] =
                      [pos |-> sb_actual_position + i - 1, line |-> sb_actual_lines[i]]

\* C9 (amended): a lookup returns content only for a virtual row that is stored,
\* in actual_lines or as a scrollback entry keyed by exactly that row, and the
\* content of a scrollback entry is the line that was at that row when it was
\* scrolled out; rows beyond the window are not excluded.
C9_LookupIsExact == []SBLookupExact /\ [][SBEntriesFromRows]_vars

\* A row beyond the window that falls into the actual range returns its line,
\* and a row of the window is served from the scrollback.
C9_Witness ==
    /\ \E index \in SBOutsideIndices : get_visible_line(index) # None
    /\ \E index \in 0..SBHeight :
           /\ ~SBInActual(sb_scroll_position.n + index)
           /\ get_visible_line(index) # None

(***************************************************************************)
(* Claims about RenderedWindow                                             *)
(***************************************************************************)

\* A full-window Scroll command of a window of more than one row shifts
\* actual_lines by rows.
ScrollShifts ==
    \A rows \in {-1, 1} :
        (/\ RWScroll(0, grid_size.height, 0, grid_size.width, rows, 0)
         /\ Abs(rows) < RingLen(actual_lines))
        => \A i \in 0..(RingLen(actual_lines) - 1) :
               (0 <= i + rows /\ i + rows < RingLen(actual_lines))
               => RingGet(actual_lines', i) = RingGet(actual_lines, i + rows)

\* A flush that scrolls in steps shifts the history half of scrollback_lines
\* (the rows the copy of the inner view does not overwrite) by the delta.
FlushShifts ==
    LET N == RingLen(scrollback_lines)
    IN  (op' = "flush_step" /\ Abs(scroll_delta) < N)
        => \A i \in (N \div 2)..(N - 1) :
               (0 <= i + scroll_delta /\ i + scroll_delta < N)
               => RingGet(scrollback_lines', i)
                      = RingGet(scrollback_lines, i + scroll_delta)

C3_ScrollbackLength ==
    op \in FlushOps =>
        RingLen(scrollback_lines)
            = 2 * (RingLen(actual_lines) - viewport_margins.top
                       - viewport_margins.bottom)

\* C3 (amended): after every return of flush, scrollback_lines.len() is twice
\* the number of rows between the margins, which is 0 when the margins together
\* exceed the height of the window.
C3_ScrollbackLengthOfInnerView ==
    op \in FlushOps =>
        RingLen(scrollback_lines)
            = 2 * Max(0, RingLen(actual_lines) - viewport_margins.top
                             - viewport_margins.bottom)

\* flush has returned early for a window of two rows, one of them a margin
C3_Witness ==
    /\ op = "flush_resized"
    /\ RingLen(actual_lines) = 2
    /\ viewport_margins.top + viewport_margins.bottom = 1
    /\ RingLen(scrollback_lines) = 2

\* the magnitude of the pending delta exceeds scrollback_lines.len() - height
ExceedsMaxDelta ==
    Abs(scroll_delta) > RingLen(scrollback_lines) - grid_size.height

\* C4: when flush applies a pending delta whose magnitude exceeds
\* scrollback_lines.len() - grid height, scroll_animation.position lands within
\* [-far_lines, far_lines], far_lines the setting capped at the window height.
C4_FarScrollLands ==
    [][\A far_setting \in 0..RWMaxFar :
           (/\ RWFlush(far_setting)
            /\ op' \in {"flush_far", "flush_step"}
            /\ ExceedsMaxDelta)
           => ScrollWithin(scroll_animation'.position,
                           Min(far_setting, RingLen(actual_lines)))]_vars

\* C5: when flush applies a nonzero delta d with |d| <= max_delta, max_delta =
\* scrollback_lines.len() - grid height, the new scroll_animation.position is
\* (old position - d) clamped to [-max_delta, max_delta], so |position| <=
\* max_delta after it.
C5_StepScrollClamps ==
    [][LET max_delta == RingLen(scrollback_lines) - grid_size.height
       IN  (op' \in {"flush_far", "flush_step"} /\ ~ExceedsMaxDelta)
           => /\ op' = "flush_step"
              /\ scroll_animation'.position
                     = ScrollClamp(ScrollMinus(scroll_animation.position,
                                               scroll_delta), max_delta)
              /\ ScrollWithin(scroll_animation'.position, max_delta)]_vars

\* A scroll in steps has left the position at the bound max_delta >= 1.
C5_Witness ==
    /\ op = "flush_step"
    /\ RingLen(scrollback_lines) - grid_size.height >= 1
    /\ Abs(scroll_animation.position.n) = RingLen(scrollback_lines) - grid_size.height
    /\ ~scroll_animation.position.f

\* C10: after a Position command whose grid size has a height different from
\* the window's height, scroll_animation.position is 0.
C10_ResizeResetsScroll ==
    [][(op' = "Position" /\ grid_size'.height # grid_size.height)
       => scroll_animation'.position = ScrollZero]_vars

\* the lines some row of actual_lines or scrollback_lines holds
LiveLines == Refs(actual_lines, scrollback_lines)

\* the lines prepare_lines visits are valid
VisitedLinesValid == \A id \in PreparedCells : line_cells[id].is_valid

\* C6: the second of two prepare_lines calls in a row rebuilds nothing: every
\* line it visits is valid already, and the pictures of every line are those of
\* the first call.
C6_SecondPrepareRebuildsNothing ==
    /\ [](op = "prepare_lines" => VisitedLinesValid)
    /\ [][op' = "prepare_lines_again" => line_cells' = line_cells]_vars

\* Two prepare_lines calls in a row have visited a line whose pictures were
\* recorded once.
C6_Witness ==
    /\ op = "prepare_lines_again"
    /\ \E id \in PreparedCells : line_cells[id].builds = 1

\* A step keeps every valid line valid with its pictures, validates a line only
\* in prepare_lines, recording its pictures, and creates lines only in DrawLine,
\* invalid and without pictures; prepare_lines leaves every line it visits valid.
ValidityStep ==
    /\ \A id \in LiveLines :
           LET before == line_cells[id]
               after == line_cells'[id]
           IN  id \in Refs(actual_lines', scrollback_lines') =>
                   /\ before.is_valid => after = before
                   /\ (~before.is_valid /\ after # before) =>
                          /\ op' \in PrepareOps
                          /\ after = [before EXCEPT !.is_valid = TRUE,
                                                    !.builds = 1]
    /\ \A id \in Refs(actual_lines', scrollback_lines') \ LiveLines :
           /\ op' = "DrawLine"
           /\ ~line_cells'[id].is_valid
           /\ line_cells'[id].builds = 0
    /\ op' \in PrepareOps =>
           \A id \in Refs(actual_lines', scrollback_lines') :
               line_cells'[id].is_valid
                   <=> (line_cells[id].is_valid \/ id \in PreparedCells)

\* C7: a line is invalid only from the DrawLine command that created it until
\* the first prepare_lines call that visits it; no other command and no flush
\* makes a valid line invalid or clears its pictures.
C7_InvalidOnlyFromDrawLine == [][ValidityStep]_vars

\* DrawLine has created a line beside a line that prepare_lines has validated.
C7_Witness ==
    /\ op = "DrawLine"
    /\ \E id \in LiveLines : line_cells[id].is_valid /\ line_cells[id].builds = 1
    /\ \E id \in LiveLines : ~line_cells[id].is_valid

\* the window is no wider than the grid
FitsGrid(grid_rect) == grid_size.width <= grid_rect.max.x - grid_rect.min.x

\* C8 (as stated): for a floating window, get_target_position returns no x that
\* puts the right edge of the window past the right edge of the grid, and no x
\* left of the left edge of the grid.
C8_WithinGrid ==
    anchor_info =>
        \A grid_rect \in GridRects :
            LET x == get_target_position(grid_rect).x
            IN  /\ x + grid_size.width <= grid_rect.max.x
                /\ x >= grid_rect.min.x

\* C8 (amended): for a floating window, get_target_position returns no x left of
\* the left edge of the grid; the right edge of the window is within the grid
\* when the window is no wider than the grid, and a wider window is placed at
\* the left edge of the grid.
C8_LeftEdgeVisible ==
    anchor_info =>
        \A grid_rect \in GridRects :
            LET x == get_target_position(grid_rect).x
            IN  /\ x >= grid_rect.min.x
                /\ FitsGrid(grid_rect) => x + grid_size.width <= grid_rect.max.x
                /\ ~FitsGrid(grid_rect) => x = grid_rect.min.x

\* animate has asked for the target of a floating window that fits the grid and
\* is moved in from the right
C8_Witness ==
    /\ op = "animate"
    /\ anchor_info
    /\ \E grid_rect \in GridRects :
           /\ FitsGrid(grid_rect)
           /\ get_target_position(grid_rect).x < grid_destination.x + grid_rect.min.x

\* the fields of the window a Scroll command that is ignored leaves alone
window_state ==
    <<hidden, anchor_info, window_type, grid_size, scrollback_lines, actual_lines,
      scroll_delta, viewport_margins, grid_start_position, grid_current_position,
      grid_destination, position_t, scroll_animation, line_cells, panicked>>

\* C11: a Position command whose grid size equals the window's grid size leaves
\* every logical row of actual_lines and of scrollback_lines as it was, and
\* leaves the pending scroll_delta for the next flush.
C11_SameSizeKeepsRows ==
    [][(op' = "Position" /\ grid_size' = grid_size)
       => /\ actual_lines' = actual_lines
          /\ scrollback_lines' = scrollback_lines
          /\ scroll_delta' = scroll_delta]_vars

\* the Scroll command has rotated actual_lines by rows and changed nothing else
ScrollRotates(rows) ==
    /\ \A i \in 0..(RingLen(actual_lines) - 1) :
           RingGet(actual_lines', i) = RingGet(actual_lines, i + rows)
    /\ RingLen(actual_lines') = RingLen(actual_lines)
    /\ UNCHANGED <<hidden, anchor_info, window_type, grid_size, scrollback_lines,
                   scroll_delta, viewport_margins, grid_start_position,
                   grid_current_position, grid_destination, position_t,
                   scroll_animation, line_cells, panicked>>

\* C12 (as stated): a Scroll command with left = 0, right = grid width and
\* cols = 0 rotates actual_lines by rows; every other Scroll command leaves the
\* state of the window unchanged.
C12_FullWidthScrollRotates ==
    [][\A region \in ScrollRegions, rows \in {-1, 1}, cols \in {0, 1} :
           (/\ op' = "Scroll"
            /\ RWScroll(region.top, region.bottom, region.left, region.right,
                        rows, cols))
           => IF region.left = 0 /\ region.right = grid_size.width /\ cols = 0
              THEN ScrollRotates(rows)
              ELSE UNCHANGED window_state]_vars

\* C12 (amended): a Scroll command whose region is the whole grid (top = 0,
\* bottom = grid height, left = 0, right = grid width) and whose cols is 0
\* rotates actual_lines by rows and changes nothing else; every other Scroll
\* command leaves the state of the window unchanged.
C12_WholeGridScrollRotates ==
    [][\A region \in ScrollRegions, rows \in {-1, 1}, cols \in {0, 1} :
           (/\ op' = "Scroll"
            /\ RWScroll(region.top, region.bottom, region.left, region.right,
                        rows, cols))
           => IF /\ region.top = 0 /\ region.bottom = grid_size.height
                 /\ region.left = 0 /\ region.right = grid_size.width /\ cols = 0
              THEN ScrollRotates(rows)
              ELSE UNCHANGED window_state]_vars

\* A Scroll command has moved the line that flush saw at row 0 of a window of
\* two rows to row 1.
C12_Witness ==
    /\ op = "Scroll"
    /\ RingLen(actual_lines) = 2
    /\ viewport_margins.inferred
    /\ RingGet(scrollback_lines, 0) # None
    /\ RingGet(actual_lines, 1) = RingGet(scrollback_lines, 0)
    /\ RingGet(actual_lines, 0) # RingGet(actual_lines, 1)

\* C13: a Viewport command sets scroll_delta to its rounded argument, whatever
\* was pending, and every flush that returns, on every path, leaves
\* scroll_delta = 0.
C13_OnePendingDelta ==
    [][/\ \A halves \in ViewportHalves :
              (op' = "Viewport" /\ RWViewport(Round(halves)))
              => scroll_delta' = Round(halves)
       /\ op' \in FlushOps => scroll_delta' = 0]_vars

\* flush has applied the pending delta of a Viewport command, in steps, and
\* left none pending
C13_Witness ==
    /\ op = "flush_step"
    /\ scroll_animation.position # ScrollZero
    /\ scroll_delta = 0

\* the lines a DrawLine command has created
DrawnLines ==
    Refs(actual_lines', scrollback_lines') \ Refs(actual_lines, scrollback_lines)

\* C14: a ViewportMargins{top, bottom} command sets viewport_margins to
\* (top, bottom, inferred = FALSE); once inferred is FALSE no other operation
\* changes viewport_margins, and no DrawLine flags its line as an inferred
\* border.
C14_ExplicitMarginsStay ==
    [][/\ \A top \in 0..RWMaxMargin, bottom \in 0..RWMaxMargin :
              (op' = "ViewportMargins" /\ RWViewportMargins(top, bottom))
              => viewport_margins' = [top |-> top, bottom |-> bottom,
                                      inferred |-> FALSE]
       /\ (~viewport_margins.inferred /\ op' # "ViewportMargins")
              => viewport_margins' = viewport_margins
       /\ (~viewport_margins.inferred /\ op' = "DrawLine")
              => \A id \in DrawnLines : ~line_cells'[id].is_inferred_border]_vars

\* flush has run over a window whose first row is a border line drawn before
\* margins of (0, 0) were set, and has left these margins.
C14_Witness ==
    /\ op \in FlushOps
    /\ viewport_margins = [top |-> 0, bottom |-> 0, inferred |-> FALSE]
    /\ IsBorder(RingGet(actual_lines, 0))

\* C15: a Position or Show command on a hidden window leaves hidden = FALSE,
\* position_t = 2.0 and grid_start_position = grid_destination; Hide sets
\* hidden and nothing else; Show on a window that is not hidden changes nothing.
C15_ShownWithoutAnimation ==
    [][/\ (hidden /\ op' \in {"Position", "Show"})
              => /\ ~hidden'
                 /\ position_t' = 2
                 /\ grid_start_position' = grid_destination'
       /\ op' = "Hide"
              => /\ hidden'
                 /\ UNCHANGED <<anchor_info, window_type, grid_size,
                                scrollback_lines, actual_lines, scroll_delta,
                                viewport_margins, grid_start_position,
                                grid_current_position, grid_destination,
                                position_t, scroll_animation, line_cells,
                                panicked>>
       /\ (~hidden /\ op' \in {"Show", "Show_visible"})
              => UNCHANGED window_state]_vars

\* Show has made visible a hidden window that is not drawn at its destination.
C15_Witness ==
    /\ op = "Show"
    /\ ~hidden
    /\ position_t = 2
    /\ grid_start_position = grid_destination
    /\ grid_current_position # grid_destination

\* C16 (as stated): a Position command with a new destination resets position_t
\* to 0 only if grid_current_position differs from grid_start_position; a
\* Position command with the same destination leaves position_t,
\* grid_start_position and grid_destination of a visible window unchanged.
C16_AnimatesUnlessAtStart ==
    [][/\ (op' = "Position" /\ grid_destination' # grid_destination
           /\ position_t' = 0)
              => grid_current_position # grid_start_position
       /\ (op' = "Position" /\ grid_destination' = grid_destination /\ ~hidden)
              => UNCHANGED <<position_t, grid_start_position,
                             grid_destination>>]_vars

\* C16 (amended): a Position command with a new destination resets position_t
\* to 0, and starts from grid_current_position, exactly when the window is
\* visible and grid_start_position is not the origin (0, 0); otherwise it sets
\* position_t to 2.0 and grid_start_position to the new destination. A Position
\* command with the same destination leaves position_t, grid_start_position and
\* grid_destination of a visible window unchanged.
C16_AnimatesUnlessStartAtOrigin ==
    [][/\ (op' = "Position" /\ grid_destination' # grid_destination)
              => IF ~hidden /\ grid_start_position # Origin
                 THEN /\ position_t' = 0
                      /\ grid_start_position' = grid_current_position
                 ELSE /\ position_t' = 2
                      /\ grid_start_position' = grid_destination'
       /\ (op' = "Position" /\ grid_destination' = grid_destination /\ ~hidden)
              => UNCHANGED <<position_t, grid_start_position,
                             grid_destination>>]_vars

\* A Position command with a new destination has started an animation of a
\* visible window from the place it is drawn at.
C16_Witness ==
    /\ op = "Position"
    /\ ~hidden
    /\ position_t = 0
    /\ grid_start_position = grid_current_position
    /\ grid_destination # grid_start_position

\* C17: after a Clear command scroll_delta = 0, scroll_animation.position = 0
\* and every slot of scrollback_lines is None.
C17_ClearResetsScroll ==
    op = "Clear"
        => /\ scroll_delta = 0
           /\ scroll_animation.position = ScrollZero
           /\ \A i \in 0..(RingLen(scrollback_lines) - 1) :
                  RingGet(scrollback_lines, i) = None

\* Clear has emptied the scrollback of a window whose first row holds a line
\* that prepare_lines has drawn.
C17_Witness ==
    /\ op = "Clear"
    /\ RingLen(scrollback_lines) > 0
    /\ RingGet(actual_lines, 0) # None
    /\ line_cells[RingGet(actual_lines, 0)].is_valid

(***************************************************************************)
(* Claims about the render loop                                            *)
(***************************************************************************)

\* draw_frame was called in this frame iteration and has drawn
Drawn == \E i \in DOMAIN steps : steps[i] = "draw"

\* C18: when animate_frame reports "still animating" in a frame iteration, the
\* next thing the render thread does is to call draw_frame, and the iteration
\* ends with the frame drawn, whether or not a draw command or an event arrived.
C18_AnimatingIsDrawn ==
    /\ [][(pc = "decide" /\ animating /\ pc' # pc) => pc' = "draw_frame"]_vars
    /\ []((pc = "end" /\ animating) => Drawn)

\* A frame iteration has drawn the frame only because animate_frame returned
\* true: prepare_frame left should_render false and no_idle is not set.
C18_Witness ==
    /\ pc = "end"
    /\ animating
    /\ ~prepared
    /\ ~no_idle
    /\ Drawn

\* the steps of a frame iteration in the order they are to happen
FrameOrder ==
    <<"prepare_frame", "animate_frame", "prepare_lines", "draw",
      "flush_and_submit", "wait_for_vsync", "swap_buffers">>

\* the place of a step in FrameOrder
Rank(step) == CHOOSE i \in DOMAIN FrameOrder : FrameOrder[i] = step

\* C19: the steps of one frame iteration happen in the order prepare_frame,
\* animate_frame, prepare_lines, draw, flush and submit, wait for vsync,
\* swap_buffers; a drawn frame has gone through all of them from prepare_lines
\* on; draw commands are handled by prepare_frame only.
C19_FrameStepsInOrder ==
    /\ [](\A i \in DOMAIN steps, j \in DOMAIN steps :
              i < j => Rank(steps[i]) < Rank(steps[j]))
    /\ [](pc = "drawn" => /\ steps[1] = "prepare_frame"
                          /\ SubSeq(steps, Len(steps) - 4, Len(steps))
                                 = SubSeq(FrameOrder, 3, 7))
    /\ [][draw_commands' < draw_commands => steps' = <<"prepare_frame">>]_vars

\* A frame has gone through every step while draw commands that arrived after
\* prepare_frame still wait.
C19_Witness ==
    /\ pc = "drawn"
    /\ steps = FrameOrder
    /\ draw_commands > 0

\* C20: every blocking wait of the render thread ends: wait_for_vsync returns
\* even if the source of vsync signals never signals again, and the wait for
\* events has a timeout of at most one second and returns.
C20_WaitsAreBounded ==
    /\ [](pc = "received" => wait_duration <= 1000)
    /\ (pc = "loop" ~> pc # "loop")
    /\ (AtWaitForVSync ~> ~AtWaitForVSync)

(***************************************************************************)
(* Claims about the size of the grid                                       *)
(***************************************************************************)

\* C21: no Resize command is sent to the editor with a grid narrower than
\* MIN_WINDOW_WIDTH columns or shorter than MIN_WINDOW_HEIGHT rows, whatever the
\* window sizes, paddings and fonts were: a smaller grid is ignored by
\* handle_new_grid_size and raised to the minimum by get_grid_size_from_window.
C21_ResizeAtLeastMinimum ==
    resize_sent # Nothing =>
        /\ ~WideLess(The(resize_sent).width, Wide(MIN_WINDOW_WIDTH))
        /\ ~WideLess(The(resize_sent).height, Wide(MIN_WINDOW_HEIGHT))

\* A grid below the minimum was ignored after a Resize had been sent, or was
\* raised to the minimum and sent.
C21_Witness ==
    /\ resize_sent # Nothing
    /\ \/ size_op = "ignored"
       \/ /\ size_op = "raised"
          /\ The(resize_sent).width = Wide(MIN_WINDOW_WIDTH)

(***************************************************************************)
(* Claims about the scroll animation                                       *)
(***************************************************************************)

\* C22: called again and again with a fixed small dt and without scroll
\* commands, update brings the position to within 0.01 of the target 0 after
\* finitely many calls; once it has reported "not animating" it reports it on
\* every later call, the animation at rest, and animate reports "not animating"
\* from some call on, the position animation finished as well.
C22_SpringConverges ==
    /\ <>(spring_called /\ Abs(spring.position) < SpringEpsilon)
    /\ [][(spring_called /\ ~scrolling) =>
              (~scrolling' /\ spring' = SpringRest)]_vars
    /\ <>[](spring_called /\ ~animate_result)

\* An animation that started a row or more from the target, or with a velocity,
\* is at rest, and the last animate call reported "not animating".
C22_Witness ==
    /\ spring_start # SpringRest
    /\ spring_called
    /\ spring = SpringRest
    /\ ~scrolling
    /\ ~animate_result

(***************************************************************************)
(* Claims about fractional scroll positions                                *)
(***************************************************************************)
\* the fractions of a row: none, the smallest, a half and the largest
Fractions == {0, 1, FracUnit \div 2, FracUnit - 1}

\* what f32 rounding may add to a value of a few rows
F32Tolerance == 2^6

\* get_visible_line returns the same line for every fraction of the position
VisibleLineIgnoresFraction ==
    \A frac \in Fractions, index \in 0..SBHeight :
        get_visible_line_at(ScrollPositionAt(frac), index)
            = get_visible_line_at(ScrollPositionAt(0), index)

\* get_scroll_offset is floor(delta) - delta for delta = scroll_position -
\* actual_position, up to the rounding of f32
OffsetIsFraction ==
    \A frac \in Fractions :
        LET delta == ScrollPositionAt(frac) - sb_actual_position * FracUnit
            expected == F64Floor(delta) * FracUnit - delta
        IN  Abs(get_scroll_offset(ScrollPositionAt(frac)) - expected)
                <= F32Tolerance

\* C23: get_visible_line(i) depends on scroll_position only through its floor:
\* for a position n + f, 0 <= f < 1, it returns the same line for every f, in
\* every buffer state; f only changes get_scroll_offset, which is
\* floor(delta) - delta for delta = scroll_position - actual_position.
C23_FractionOnlyMovesOffset == VisibleLineIgnoresFraction /\ OffsetIsFraction

\* The buffer is scrolled to a fractional position between rows of which one
\* comes from the scrollback.
C23_Witness ==
    /\ sb_scroll_position.f
    /\ sb_scrollback_lines # <<>>
    /\ \E index \in 0..SBHeight :
           /\ ~(sb_scroll_position.n + index - sb_actual_position \in 0..(SBHeight - 1))
           /\ get_visible_line_at(ScrollPositionAt(FracUnit \div 2), index) # None

(***************************************************************************)
(* Claims about CharacterGrid                                              *)
(***************************************************************************)
\* the scrolls of a scroll_region call
ScrollDistances == (-CGMaxRows)..CGMaxRows

\* the last operation was a scroll_region call of the optimized branch
FullOps == {"scroll_full", "scroll_clamped", "scroll_jump"}

\* the rows of the smooth-scrolling view are the same after the step
SameScrolledRows ==
    \A i \in 0..(cg_height - 1) :
        scrolled_row_of(cg_lines', cg_top_index', cg_scroll_offset', i)
            = scrolled_row(i)

\* C24: a scroll of the whole grid by rows, |rows| <= height, whose resulting
\* scroll_offset is not clamped sets scroll_offset to (old offset - rows) and
\* leaves scrolled_row(i) as it was for every row i of the grid, from every
\* state that earlier scrolls in either direction have left.
C24_FullScrollKeepsView ==
    [][\A rows \in ScrollDistances :
           (/\ cg_op' \in FullOps
            /\ Abs(rows) <= cg_height
            /\ Abs(cg_scroll_offset - 2 * rows) <= 2 * cg_height
            /\ CGScrollRegion(0, cg_height, 0, cg_width, rows, 0))
           => /\ cg_scroll_offset' = cg_scroll_offset - 2 * rows
              /\ SameScrolledRows]_vars

\* A scroll of the whole grid has left the view on rows that are not the rows
\* of the grid, one cell of the view drawn and one cell of the grid not.
C24_Witness ==
    /\ cg_op = "scroll_full"
    /\ cg_scroll_offset # 0
    /\ \E i \in 0..(cg_height - 1) :
           /\ scrolled_row(i) # cg_lines[RowArrayIndex(cg_lines, cg_top_index, i)]
           /\ \E c \in 1..cg_width : scrolled_row(i)[c] # DefaultCell

\* C25: scroll_offset stays within [-height, height] under scroll_region, clear
\* and resize: a scroll of the whole grid by rows with |rows| > height resets it
\* to 0, any other scroll of the whole grid sets it to (old - rows) clamped to
\* [-height, height].
C25_ScrollOffsetBounded ==
    /\ [](Abs(cg_scroll_offset) <= 2 * cg_height)
    /\ [][\A rows \in ScrollDistances :
              (/\ cg_op' \in FullOps
               /\ CGScrollRegion(0, cg_height, 0, cg_width, rows, 0))
              => cg_scroll_offset' =
                     IF Abs(rows) > cg_height THEN 0
                     ELSE Max(-2 * cg_height,
                              Min(2 * cg_height, cg_scroll_offset - 2 * rows))]_vars

\* A scroll of the whole grid was clamped at the height of a grid of more than
\* one row.
C25_Witness ==
    /\ cg_op = "scroll_clamped"
    /\ cg_height > 1
    /\ Abs(cg_scroll_offset) = 2 * cg_height

\* the cells of the lines, as (x, y) with y counted from top_index, that are
\* not in the region
OutsideRegion(top, bottom, left, right) ==
    {c \in (0..(cg_width - 1)) \X (0..(Len(cg_lines) - 1)) :
        ~(c[1] \in left..(right - 1) /\ c[2] \in top..(bottom - 1))}

\* what a scroll_region call of the copying branch does
RegionScrolled(top, bottom, left, right, rows, cols) ==
    /\ \A x \in left..(right - 1), y \in top..(bottom - 1) :
           (x - cols \in left..(right - 1) /\ y - rows \in top..(bottom - 1))
           => GetCell(cg_lines', cg_top_index', x - cols, y - rows) = get_cell(x, y)
    /\ \A c \in OutsideRegion(top, bottom, left, right) :
           GetCell(cg_lines', cg_top_index', c[1], c[2]) = get_cell(c[1], c[2])
    /\ cg_scroll_offset' = 0

\* scroll_region calls of the copying branch whose row range does not wrap
RegionScrolledInRange ==
    [][\A region \in GridRegions, rows \in ScrollDistances, cols \in {-1, 0, 1} :
           (/\ cg_op' = "scroll_part"
            /\ CGScrollRegion(region.top, region.bottom, region.left,
                              region.right, rows, cols))
           => RegionScrolled(region.top, region.bottom, region.left,
                             region.right, rows, cols)]_vars

\* C26: a scroll_region call that is not a pure vertical scroll of the whole
\* grid returns with the pre-call content of every cell (x, y) of the region
\* whose destination (x - cols, y - rows) is in the region copied to the
\* destination, every cell outside the region unchanged and scroll_offset 0.
C26_RegionScrollCopies ==
    [][\A region \in GridRegions, rows \in ScrollDistances, cols \in {-1, 0, 1} :
           (/\ cg_op' \notin FullOps
            /\ CGScrollRegion(region.top, region.bottom, region.left,
                              region.right, rows, cols))
           => /\ ~cg_hung'
              /\ RegionScrolled(region.top, region.bottom, region.left,
                                region.right, rows, cols)]_vars

\* A scroll_region call walks a wrapped row range, the view still scrolled.
C26_Witness == cg_hung /\ cg_scroll_offset # 0

\* C27: resize((w, h)) keeps, for every x < min(old width, w) and y < min(old
\* height, h), the cell get_cell(x, y) returned before, sets every other cell to
\* the default cell, sets width and height to (w, h) and resets scroll_offset
\* and top_index to 0.
C27_ResizeKeepsCells ==
    [][\A w \in 1..CGMaxWidth, h \in 1..CGMaxHeight :
           (cg_op' = "resize" /\ CGResize(w, h))
           => /\ cg_width' = w /\ cg_height' = h
              /\ Len(cg_lines') = 2 * h
              /\ \A r \in 1..(2 * h) : Len(cg_lines'[r]) = w
              /\ \A x \in 0..(w - 1), y \in 0..(2 * h - 1) :
                     cg_lines'[y + 1][x + 1] =
                         IF x < Min(cg_width, w) /\ y < Min(cg_height, h)
                         THEN get_cell(x, y) ELSE DefaultCell
              /\ cg_scroll_offset' = 0
              /\ cg_top_index' = 0]_vars

\* A resize to more than one cell has kept a cell the editor had drawn.
C27_Witness ==
    /\ cg_op = "resize"
    /\ cg_width * cg_height > 1
    /\ \E x \in 0..(cg_width - 1), y \in 0..(cg_height - 1) :
           get_cell(x, y) # DefaultCell

(***************************************************************************)
(* Claims about ScrollbackBuffer::scroll_internal                          *)
(***************************************************************************)
\* the number of rows of a buffer that hold the value
RowsHolding(lines, value) == Cardinality({i \in 1..Len(lines) : lines[i] = value})

\* what scroll_internal(top, bottom, rows) does to actual_lines
ScrollInternalEffect(pre, post, top, bottom, rows) ==
    /\ Len(post) = Len(pre)
    /\ (0 < Abs(rows) /\ Abs(rows) < bottom - top) =>
           /\ \A y \in top..(bottom - 1) :
                  (y - rows \in top..(bottom - 1)) => post[y - rows + 1] = pre[y + 1]
           /\ \A y \in 0..(Len(pre) - 1) :
                  (y \notin top..(bottom - 1)) => post[y + 1] = pre[y + 1]
           /\ \A value \in {None} \cup 1..SBInternalMaxHeight :
                  RowsHolding(post, value) = RowsHolding(pre, value)
    /\ (Abs(rows) >= bottom - top) => post = pre

\* C28: scroll_internal(top, bottom, rows) with 0 < |rows| < bottom - top moves
\* the content of row y to row y - rows for every y whose source and
\* destination are both in [top, bottom), leaves the rows outside [top, bottom)
\* unchanged and only permutes actual_lines; with |rows| >= bottom - top it
\* changes nothing.
C28_ScrollInternalMovesRows ==
    [][\A top \in 0..SBInternalMaxHeight, bottom \in 0..SBInternalMaxHeight,
          rows \in (-SBInternalMaxHeight)..SBInternalMaxHeight :
           SBScrollInternal(top, bottom, rows)
           => ScrollInternalEffect(sb_actual_lines, sb_actual_lines',
                                   top, bottom, rows)]_vars

\* Calls of scroll_internal have moved the lines of a buffer of more than two
\* rows, one of them without a line, out of the order they were drawn in.
C28_Witness ==
    /\ SBHeight > 2
    /\ \E i \in 1..SBHeight : sb_actual_lines[i] = None
    /\ \E i \in 1..SBHeight : sb_actual_lines[i] \notin {None, i}

(***************************************************************************)
(* Claims about the drop shadow of floating windows                        *)
(***************************************************************************)
\* the rectangle inner lies within the rectangle outer
BoxWithin(inner, outer) ==
    /\ outer.min.x <= inner.min.x /\ inner.max.x <= outer.max.x
    /\ outer.min.y <= inner.min.y /\ inner.max.y <= outer.max.y

\* C29: within a frame draw renders a drop shadow for a window only if the
\* window is floating, shadows are enabled and its pixel rectangle does not lie
\* within the rectangle of a floating window drawn earlier in the frame, whether
\* that window got a shadow or not.
C29_ShadowOnlyIfUncovered ==
    \A i \in 1..Len(frame_drawn) :
        frame_drawn[i].shadow =>
            /\ frame_drawn[i].anchor_info
            /\ floating_shadow
            /\ \A j \in 1..(i - 1) :
                   frame_drawn[j].anchor_info =>
                       ~BoxWithin(frame_drawn[i].pixel_region,
                                  frame_drawn[j].pixel_region)

\* Three floating windows, each within the one before: the first has a shadow,
\* the second has none, and the third, which lies within the second, has none.
C29_Witness ==
    /\ floating_shadow
    /\ Len(frame_drawn) = 3
    /\ \A i \in 1..3 : frame_drawn[i].anchor_info
    /\ frame_drawn[1].shadow /\ ~frame_drawn[2].shadow /\ ~frame_drawn[3].shadow
    /\ frame_drawn[1].pixel_region = Box(0, 0, FrameMaxX, FrameMaxY)
    /\ frame_drawn[2].pixel_region = Box(0, 0, 1, 1)
    /\ frame_drawn[3].pixel_region = Box(0, 0, 1, 1)
    /\ previous_floating_rects = <<frame_drawn[1].pixel_region>>

(***************************************************************************)
(* Claims about the end of the render thread                               *)
(***************************************************************************)
\* C30: the render loop is left only when the channel of window events is
\* disconnected; after that no step of a frame is taken, save_window_size is
\* called once, with the maximized flag, the inner size and the outer position
\* the window answers at that moment, and the process exits only after the call.
C30_ShutdownSavesOnce ==
    /\ [][(pc # "exit" /\ pc' = "exit")
          => (e = "Disconnected" /\ ~rx_connected /\ rx_events = <<>>)]_vars
    /\ [][pc = "exit"
          => (pc' = "exit" /\ steps' = steps /\ draw_step' = draw_step)]_vars
    /\ [][save_window_size' # save_window_size
          => /\ pc = "exit"
             /\ save_window_size = <<>>
             /\ os_window' # Nothing
             /\ save_window_size' =
                    <<Geometry(The(os_window').maximized,
                               The(os_window').inner_size,
                               The(os_window').outer_position)>>]_vars
    /\ [](after_loop # "loop" => pc = "exit")
    /\ [](after_loop = "loop" => save_window_size = <<>>)
    /\ [](after_loop # "loop" => Len(save_window_size) = 1)

\* The process has exited after saving a maximized window whose position the
\* system did not tell.
C30_Witness ==
    /\ after_loop = "exited"
    /\ Len(save_window_size) = 1
    /\ save_window_size[1].maximized
    /\ save_window_size[1].outer_position = Nothing
    /\ save_window_size[1].inner_size = Size(SizeMaxWidth, SizeMaxHeight)

(***************************************************************************)
(* Claims about the order of the scrollback                                *)
(***************************************************************************)
\* C31: scrollback_lines is strictly increasing in virtual position in every
\* state reachable by scroll, scroll_internal, changes of scroll_position,
\* reset_scroll, clear and resize.
C31_ScrollbackSorted ==
    \A i \in 1..(Len(sb_scrollback_lines) - 1) :
        sb_scrollback_lines[i].pos < sb_scrollback_lines[i + 1].pos

\* A scroll up has pushed an entry in front of an entry with a lower virtual
\* position, which the cleanup had left in the scrollback.
C31_Witness ==
    /\ Len(sb_scrollback_lines) > 1
    /\ sb_scroll_position = Whole(0)
    /\ \E i \in 1..(Len(sb_scrollback_lines) - 1) :
           sb_scrollback_lines[i].pos >= sb_scrollback_lines[i + 1].pos

(***************************************************************************)
(* Claims about the scrollback of a window after flush                     *)
(***************************************************************************)
\* the rows between the margins
InnerHeight ==
    Max(0, RingLen(actual_lines) - viewport_margins.bottom - viewport_margins.top)

\* the current half of the scrollback holds the rows between the margins
CurrentHalfMirrors ==
    \A i \in 0..(InnerHeight - 1) :
        RingGet(scrollback_lines, i) =
            RingGet(actual_lines, viewport_margins.top + i)

\* C32: after every flush scrollback_lines[i] is actual_lines[top margin + i]
\* for each i in [0, inner height), for every pending delta, every margin
\* configuration and every scroll_animation_far_lines setting.
C32_FlushMirrorsActual == op \in FlushOps => CurrentHalfMirrors

\* after the flushes that do not clear rows for a far scroll the claim holds
FlushMirrorsUnlessFar == op \in (FlushOps \ {"flush_far"}) => CurrentHalfMirrors

\* A far flush has cleared a row of the current half that holds a line in
\* actual_lines.
C32_Witness ==
    /\ op = "flush_far"
    /\ \E i \in 0..(InnerHeight - 1) :
           /\ RingGet(scrollback_lines, i) = None
           /\ RingGet(actual_lines, viewport_margins.top + i) # None

(***************************************************************************)
(* Claims about the history a scroll animation needs                       *)
(***************************************************************************)
\* C33: after rounds of scroll(r), scroll_internal and refill in one direction,
\* each 0 < |r| < H, with scroll_position unchanged, get_visible_line(i) for i in
\* 0..H-1 returns the lines that were visible before the first scroll.
C33_HistoryKept ==
    sb_hist.stage = "refilled" =>
        \A i \in 0..(SBHeight - 1) : get_visible_line(i) = sb_hist.view[i + 1]

\* the same after the first round only
HistoryKeptOneRound ==
    (sb_hist.stage = "refilled" /\ Abs(sb_actual_position) = Abs(sb_hist.rows)) =>
        \A i \in 0..(SBHeight - 1) : get_visible_line(i) = sb_hist.view[i + 1]

\* A second round downwards has ended, and a line that was visible before the
\* first scroll is not returned any more.
C33_Witness ==
    /\ sb_hist.stage = "refilled"
    /\ sb_actual_position = 2
    /\ \E i \in 0..(SBHeight - 1) :
           /\ sb_hist.view[i + 1] # None
           /\ get_visible_line(i) = None

(***************************************************************************)
(* Claims about the scroll delta a flush applies                           *)
(***************************************************************************)
\* the inner view of the next flush ends at or after row 0
FlushInnerEnd == RingLen(actual_lines) - InferredMargins.bottom

FlushInnerSize == Max(0, FlushInnerEnd - InferredMargins.top)

\* the next flush applies a nonzero delta: it does not take the early return
FlushAppliesDelta ==
    /\ ~panicked
    /\ scroll_delta # 0
    /\ FlushInnerEnd >= 0
    /\ FlushInnerSize = RingLen(scrollback_lines) \div 2

\* C35: whenever flush applies a nonzero scroll delta, scrollback_lines.len() -
\* grid_size.height does not underflow: 2 * (height - top - bottom) >= height.
C35_MaxDeltaNoUnderflow ==
    FlushAppliesDelta => 2 * FlushInnerSize >= grid_size.height

\* A flush with overflow checks has panicked on that subtraction.
C35_Witness ==
    /\ op = "panic"
    /\ scroll_delta # 0
    /\ FlushInnerEnd >= 0
    /\ FlushInnerSize = RingLen(scrollback_lines) \div 2
    /\ RingLen(scrollback_lines) < grid_size.height

\* a flush applies the pending delta in steps and the clamp changes nothing
FlushStepUnclamped ==
    /\ op' = "flush_step"
    /\ scroll_delta # 0
    /\ scroll_animation'.position =
           ScrollMinus(scroll_animation.position, scroll_delta)

\* the slot of logical index `index` belongs to the current view, which flush
\* overwrites from actual_lines
InCurrentView(rb, index, inner_size) == ArrayIndex(rb, index) <= inner_size

\* C34: a flush that applies a delta d, 0 < |d| <= max_delta, without clamping
\* does not make the picture jump: for every drawn row i in 0..grid height the
\* line at scrollback_lines[floor(position) + i] after the flush is the one that
\* was at scrollback_lines[floor(position) + i] before it, unless that slot
\* belongs to the current view and was overwritten from actual_lines.
C34_FlushKeepsPicture ==
    [][ (FlushStepUnclamped /\ RingLen(scrollback_lines) > 0) =>
            \A i \in 0..grid_size.height :
                LET before == scroll_animation.position.n + i
                    after == scroll_animation'.position.n + i
                IN  IF InCurrentView(scrollback_lines', after, FlushInnerSize)
                    THEN RingGet(scrollback_lines', after) =
                             RingGet(actual_lines,
                                     InferredMargins.top
                                         + ArrayIndex(scrollback_lines', after) - 1)
                    ELSE RingGet(scrollback_lines', after) =
                             RingGet(scrollback_lines, before) ]_vars

\* A flush in steps has moved the position off zero, and a row drawn above or
\* below the current view shows a line.
C34_Witness ==
    /\ op = "flush_step"
    /\ scroll_animation.position.n # 0
    /\ RingLen(scrollback_lines) > 0
    /\ \E i \in 0..grid_size.height :
           /\ ~InCurrentView(scrollback_lines, scroll_animation.position.n + i,
                             FlushInnerSize)
           /\ RingGet(scrollback_lines, scroll_animation.position.n + i) # None

(***************************************************************************)
(* Claims about the vsync thread                                           *)
(***************************************************************************)
\* a call of wait_for_vsync returns in this step
WaitReturns == vsync.render = "check" /\ vsync'.render = "idle"

\* C36: the vsync thread only increments the shared counter, under its mutex, and
\* touches no field of the render thread; wait_for_vsync returns only when the
\* counter is at least interval (2 in the fixed variant) above the value the
\* previous call recorded, and then records the current value; last_vsync never
\* decreases and never exceeds the counter.
C36_CounterPacesWaits ==
    /\ [][vsync'.count # vsync.count =>
              /\ vsync'.count = vsync.count + 1
              /\ vsync.mutex = "thread"
              /\ vsync'.last_vsync = vsync.last_vsync
              /\ vsync'.dt = vsync.dt
              /\ vsync'.interval = vsync.interval]_vars
    /\ [][vsync'.thread # vsync.thread =>
              /\ vsync'.last_vsync = vsync.last_vsync
              /\ vsync'.interval = vsync.interval
              /\ vsync'.dt = vsync.dt]_vars
    /\ [][WaitReturns =>
              /\ vsync.count >= vsync.last_vsync + vsync.interval
              /\ vsync'.last_vsync = vsync.count
              /\ vsync.kind = "fixed" => vsync.interval = 2]_vars
    /\ [][vsync'.last_vsync >= vsync.last_vsync]_vars
    /\ [](vsync.last_vsync <= vsync.count)

\* A second call has returned.
C36_Witness ==
    /\ vsync.render = "idle"
    /\ vsync.last_vsync >= 3
    /\ vsync.count > vsync.last_vsync

\* the render thread is inside wait_for_vsync of vsync_win or vsync
InWait == vsync.render \in {"lock", "check", "waiting", "woken"}

\* C37: while the vsync thread keeps ticking, every wait_for_vsync call returns
\* in the end, whatever the interleaving of the thread's increment-and-notify
\* with the render thread's predicate check and wait (for the calls made while
\* the thread has VSMaxInterval vsyncs left to count).
C37_WaitReturns ==
    (InWait /\ vsync.count + VSMaxInterval <= VSMaxCount) ~> vsync.render = "idle"

\* A call waits on the condition with the thread about to count.
C37_Witness ==
    /\ vsync.render = "waiting"
    /\ vsync.thread = "held"
    /\ vsync.count + 1 >= vsync.last_vsync + vsync.interval
    /\ vsync.count + VSMaxInterval <= VSMaxCount

\* C38: dropping the vsync object terminates: once should_exit is set the thread
\* leaves its loop and the join returns, with no further compositor or
\* frame-callback event needed, in the DWM and in the Wayland implementation.
C38_DropTerminates == vsync.should_exit ~> vsync.render = "dropped"

\* the same for the thread that waits in DwmFlush, the compositor composing
DropTerminatesDwm ==
    (vsync.should_exit /\ vsync.kind # "wayland") ~> vsync.render = "dropped"

\* The render thread is in the join and the vsync thread in blocking_dispatch
\* with no frame callback requested.
C38_Witness ==
    /\ vsync.render = "joining"
    /\ vsync.thread = "dispatch"
    /\ vsync.callbacks = 0

(***************************************************************************)
(* Claims about the start-up of the UI                                     *)
(***************************************************************************)
\* the last of the commands that set ui_state, "none" without one
RECURSIVE LastStateCommand(_)
LastStateCommand(commands) ==
    IF commands = <<>> THEN "none"
    ELSE IF commands[Len(commands)].name \in {"UIEnter", "UIReady"}
    THEN commands[Len(commands)].name
    ELSE LastStateCommand(SubSeq(commands, 1, Len(commands) - 1))

\* C39: prepare_frame returns true only when ui_state is Ready; ui_state becomes
\* Ready, and the window is made visible, only from ShouldShow and only in a
\* prepare_frame call with no pending Columns or Lines request; ShouldShow is
\* entered only by UIReady and Entered only by UIEnter.
C39_StartupStateMachine ==
    /\ []((ui_op.name = "prepare_frame" /\ ui_op.result) => ui_state = "Ready")
    /\ [][(ui_state' = "Ready" /\ ui_state # "Ready") \/ (set_visible' /\ ~set_visible) =>
              /\ ui_state = "ShouldShow"
              /\ ui_state' = "Ready"
              /\ set_visible'
              /\ ui_op'.name = "prepare_frame"
              /\ requested_columns = Nothing
              /\ requested_lines = Nothing]_vars
    /\ [][(ui_state' = "ShouldShow" /\ ui_state # "ShouldShow") =>
              /\ ui_op'.name = "handle_window_commands"
              /\ LastStateCommand(ui_op'.commands) = "UIReady"]_vars
    /\ [][(ui_state' = "Entered" /\ ui_state # "Entered") =>
              /\ ui_op'.name = "handle_window_commands"
              /\ LastStateCommand(ui_op'.commands) = "UIEnter"]_vars

\* A prepare_frame call without a pending request has left the UI ready and
\* the window shown, and returns true.
C39_Witness ==
    /\ ui_state = "Ready"
    /\ set_visible
    /\ ui_op.name = "prepare_frame"
    /\ ui_op.result
    /\ ~ui_op.resize_requested

(***************************************************************************)
(* Claims about the pace of the render loop                                *)
(***************************************************************************)
\* the calls of the last frame iteration include the drawing of a frame
LastFrameDrawn == \E i \in 1..Len(steps) : steps[i] = "swap_buffers"

\* C40: after a focus-lost event the loop reads the normal refresh_rate for the
\* next frame iteration and refresh_rate_idle for every later iteration until a
\* focus-gained event, which restores the normal rate from the next iteration
\* on; the rate is never below 1 Hz; the loop blocks waiting for an event only
\* when the previous iteration drew no frame.
C40_IdlePacing ==
    pc = "received" =>
        /\ pace.setting = IF pace.since = 1 THEN "refresh_rate_idle"
                          ELSE "refresh_rate"
        /\ pace.hz >= 1
        /\ pace.blocked => ~LastFrameDrawn

\* The focus was lost a frame iteration ago or more: the loop waits for an event
\* at the idle rate, raised to 1 Hz.
C40_Witness ==
    /\ pc = "received"
    /\ pace.since = 1
    /\ pace.setting = "refresh_rate_idle"
    /\ pace.hz = 1
    /\ pace.blocked
    /\ wait_duration = 1000

====
